---------------------------- MODULE Spec2Model ----------------------------
(***************************************************************************)
(* A model of the dotnet-start VS Code extension: launching a .NET project *)
(* under the debugger from a selected .csproj and launch profile.          *)
(*                                                                         *)
(* The repository holds several revisions of the same code.  Two of them   *)
(* resolve the target binary and are modelled side by side, chosen by the  *)
(* variable rev:                                                           *)
(*   "CsprojService"           src/services/csprojService.ts with the      *)
(*                             MSBuild property service of unnamed/part_003*)
(*                             driven by the commands of unnamed/part_001; *)
(*   "DotnetStartDebugService" src/debugging/dotnetStartDebugService.ts    *)
(*                             (the class at lines 446-867).               *)
(*                                                                         *)
(* Strings are sequences of lexemes: a lexeme is a separator ("/", ";"),   *)
(* a blank (" "), a quote, a backslash, an extension (".dll") or a word.   *)
(* Every string operation of the code (trim, split, join, normalize,       *)
(* toLowerCase, concatenation) is computed on that representation.  Paths  *)
(* are POSIX paths.  An optional value is a set with at most one element.  *)
(***************************************************************************)
EXTENDS Integers, Sequences, FiniteSets, TLC

\* The number of commands the model lets the user start, one after another.
MaxAttempts == 2

--------------------------------------------------------------------------
\* Strings

None == {}

Some(v) == {v}

The(o) == CHOOSE v \in o : TRUE

\* JavaScript truthiness of a string: the empty string is falsy.
Truthy(s) == Len(s) > 0

\* s.trim().length === 0
IsBlank(s) == \A i \in 1..Len(s) : s[i] = " "

RECURSIVE TrimStart(_)
TrimStart(s) == IF Len(s) > 0 /\ s[1] = " " THEN TrimStart(Tail(s)) ELSE s

RECURSIVE TrimEnd(_)
TrimEnd(s) ==
    IF Len(s) > 0 /\ s[Len(s)] = " " THEN TrimEnd(SubSeq(s, 1, Len(s) - 1)) ELSE s

\* String.prototype.trim
Trim(s) == TrimEnd(TrimStart(s))

\* String.prototype.toLowerCase on one lexeme.
LowerLexeme(x) ==
    CASE x = "App" -> "app"
      [] x = "Debug" -> "debug"
      [] x = "Release" -> "release"
      [] x = "NET8.0" -> "net8.0"
      [] x = "Lib" -> "lib"
      [] x = "True" -> "true"
      [] x = "False" -> "false"
      [] x = "FALSE" -> "false"
      [] x = ".DLL" -> ".dll"
      [] OTHER -> x

\* The string as it is, for a comparison that minds the case.
sameCase(s) == s

\* String.prototype.toLowerCase
ToLowerCase(s) == [i \in 1..Len(s) |-> LowerLexeme(s[i])]

\* String.prototype.split(sep): the pieces between separators, empty ones kept.
RECURSIVE Split(_, _)
Split(s, sep) ==
    IF \A i \in 1..Len(s) : s[i] # sep
    THEN <<s>>
    ELSE LET k == CHOOSE i \in 1..Len(s) :
                     s[i] = sep /\ \A j \in 1..(i - 1) : s[j] # sep
         IN <<SubSeq(s, 1, k - 1)>> \o Split(SubSeq(s, k + 1, Len(s)), sep)

\* Array.prototype.filter((p) => p.length > 0)
NonEmptyParts(parts) == SelectSeq(parts, LAMBDA p : Len(p) > 0)

\* Array.prototype.join(sep)
RECURSIVE JoinWith(_, _)
JoinWith(parts, sep) ==
    IF Len(parts) = 0 THEN <<>>
    ELSE IF Len(parts) = 1 THEN parts[1]
    ELSE parts[1] \o <<sep>> \o JoinWith(Tail(parts), sep)

--------------------------------------------------------------------------
\* Node's path module (POSIX flavour)

\* path.isAbsolute
IsAbsolute(p) == Len(p) > 0 /\ p[1] = "/"

\* The segment walk of path.normalize: "." is dropped, ".." removes the
\* segment before it, or is kept at the front of a relative path.
RECURSIVE NormalizeParts(_, _, _)
NormalizeParts(parts, acc, abs) ==
    IF Len(parts) = 0 THEN acc
    ELSE LET h == parts[1]
             t == Tail(parts)
         IN IF h = <<".">> THEN NormalizeParts(t, acc, abs)
            ELSE IF h = <<"..">>
            THEN IF Len(acc) > 0 /\ acc[Len(acc)] # <<"..">>
                 THEN NormalizeParts(t, SubSeq(acc, 1, Len(acc) - 1), abs)
                 ELSE IF abs THEN NormalizeParts(t, acc, abs)
                 ELSE NormalizeParts(t, Append(acc, h), abs)
            ELSE NormalizeParts(t, Append(acc, h), abs)

\* path.normalize
Normalize(p) ==
    IF Len(p) = 0 THEN <<".">>
    ELSE LET abs == IsAbsolute(p)
             trailing == p[Len(p)] = "/"
             body == JoinWith(NormalizeParts(NonEmptyParts(Split(p, "/")), <<>>, abs), "/")
             dotted == IF Len(body) = 0 /\ ~abs THEN <<".">> ELSE body
             slashed == IF Len(dotted) > 0 /\ trailing THEN dotted \o <<"/">> ELSE dotted
         IN IF abs THEN <<"/">> \o slashed ELSE slashed

\* path.join(...parts): empty arguments are skipped, the rest normalized.
Join(parts) ==
    LET joined == JoinWith(NonEmptyParts(parts), "/")
    IN IF Len(joined) = 0 THEN <<".">> ELSE Normalize(joined)

\* The segments of an already normalized path, without empty ones.
Segments(p) == NonEmptyParts(Split(p, "/"))

\* path.dirname, for a path with no trailing separator
Dirname(p) ==
    LET segs == Segments(p)
        dir == JoinWith(SubSeq(segs, 1, Len(segs) - 1), "/")
    IN IF IsAbsolute(p) THEN <<"/">> \o dir
       ELSE IF Len(dir) = 0 THEN <<".">> ELSE dir

\* path.basename
Basename(p) ==
    LET segs == Segments(p) IN IF Len(segs) = 0 THEN <<>> ELSE segs[Len(segs)]

\* The extension lexemes of the model's file names.
Extensions == {".dll", ".DLL", ".exe", ".csproj", ".json"}

\* path.parse(p).name: the base name without its extension
ParseName(p) ==
    LET b == Basename(p)
    IN IF Len(b) > 1 /\ b[Len(b)] \in Extensions THEN SubSeq(b, 1, Len(b) - 1) ELSE b

\* vscode.Uri.file(p).fsPath: a path that does not start with a slash gets one.
UriFile(p) == IF IsAbsolute(p) THEN p ELSE <<"/">> \o p

--------------------------------------------------------------------------
\* The project under test and the files around it

CsprojPath == <<"/", "repo", "/", "App", "/", "App", ".csproj">>

ProjectDir == Dirname(CsprojPath)

ProjectName == ParseName(CsprojPath)

\* The DLLs that may lie on disk.
BuiltDll == <<"/", "repo", "/", "App", "/", "bin", "/", "Debug", "/", "net8.0", "/", "App", ".dll">>

DependencyDll == <<"/", "repo", "/", "App", "/", "bin", "/", "Debug", "/", "net8.0", "/", "Lib", ".dll">>

IntermediateDll == <<"/", "repo", "/", "App", "/", "obj", "/", "Debug", "/", "net8.0", "/", "App", ".dll">>

PublishedDll == <<"/", "repo", "/", "App", "/", "publish", "/", "app", ".dll">>

CustomDll == <<"/", "out", "/", "App", ".dll">>

\* What a successful dotnet build leaves on disk: the default layout, or the
\* layout of a project whose output directory lies outside the project.
BuildOutputs == {{BuiltDll, DependencyDll, IntermediateDll}, {CustomDll, IntermediateDll}}

\* The DLL sets the model starts from.
InitialDisks ==
    { {}, {IntermediateDll}, {DependencyDll, IntermediateDll},
      {BuiltDll, DependencyDll, IntermediateDll}, {PublishedDll}, {CustomDll} }

--------------------------------------------------------------------------
\* MSBuild properties (MsbuildProjectPropertiesService, unnamed/part_003)

PropertyNames ==
    <<"TargetPath", "TargetFramework", "TargetFrameworks", "OutputPath", "BaseOutputPath",
      "AssemblyName", "TargetExt", "TargetFileName", "AppendTargetFrameworkToOutputPath">>

PropertyNameSet == {PropertyNames[i] : i \in 1..Len(PropertyNames)}

\* props.X, an optional string
Prop(props, name) == IF name \in DOMAIN props THEN Some(props[name]) ELSE None

\* The record a list of (name, raw value) entries denotes once every value
\* that is a string with a non-blank trim is kept, trimmed; a later entry of
\* the same name replaces an earlier one.
TrimmedStringEntries(entries) ==
    LET kept == SelectSeq(entries, LAMBDA e : e.t = "string" /\ ~IsBlank(e.s))
        names == {kept[i].name : i \in 1..Len(kept)}
        last(n) == CHOOSE i \in 1..Len(kept) :
                       kept[i].name = n /\ \A j \in (i + 1)..Len(kept) : kept[j].name # n
    IN [n \in names |-> Trim(kept[last(n)].s)]

\* parseMsbuildProperties(output): blank output is the empty record, output
\* that is not JSON makes JSON.parse throw, JSON without a Properties object
\* throws, and a Properties object yields its non-blank string values trimmed.
parseMsbuildProperties(output) ==
    CASE output.form = "blank" -> [threw |-> FALSE, value |-> <<>>]
      [] output.form = "json" -> [threw |-> FALSE, value |-> TrimmedStringEntries(output.entries)]
      [] OTHER -> [threw |-> TRUE, value |-> <<>>]

\* pickProperties(allProperties, names)
pickProperties(allProperties, names) ==
    LET picked == {n \in names : n \in DOMAIN allProperties /\ ~IsBlank(allProperties[n])}
    IN [n \in picked |-> Trim(allProperties[n])]

\* propertyNames.some(p => typeof parsed[p] === 'string' && parsed[p].trim().length > 0)
hasAny(parsed) == \E n \in PropertyNameSet : n \in DOMAIN parsed /\ ~IsBlank(parsed[n])

\* The pieces between semicolons with the empty ones kept.
splitKeepingEmpty(value) ==
    IF value = None \/ ~Truthy(The(value)) THEN <<>>
    ELSE LET pieces == Split(The(value), ";")
         IN [i \in 1..Len(pieces) |-> Trim(pieces[i])]

\* splitSemicolonList(value)
splitSemicolonList(value) ==
    IF value = None \/ ~Truthy(The(value)) THEN <<>>
    ELSE LET pieces == Split(The(value), ";")
         IN NonEmptyParts([i \in 1..Len(pieces) |-> Trim(pieces[i])])

\* The flag read as false whatever its text.
flagRefused(value) == Some(FALSE)

\* Every text other than "true" read as false
nonBooleanIsFalse(value) ==
    IF value = None \/ ~Truthy(The(value)) THEN None
    ELSE Some(ToLowerCase(Trim(The(value))) = <<"true">>)

\* convertMsbuildPropertyToBoolean(value): an optional boolean
convertMsbuildPropertyToBoolean(value) ==
    IF value = None \/ ~Truthy(The(value)) THEN None
    ELSE LET normalized == ToLowerCase(Trim(The(value)))
         IN IF normalized = <<"true">> THEN Some(TRUE)
            ELSE IF normalized = <<"false">> THEN Some(FALSE)
            ELSE None

\* value && value.trim().length > 0 ? value : undefined
NonBlank(value) == IF value # None /\ Truthy(The(value)) /\ ~IsBlank(The(value)) THEN value ELSE None

\* a ?? b
Coalesce(a, b) == IF a # None THEN a ELSE b

\* A computation that yields no path
nothingComputed(csprojPath, configuration, props) == <<>>

\* computeExpectedTargetPath(csprojUri, 'Debug', props)
computeExpectedTargetPath(csprojPath, configuration, props) ==
    LET projectDir == Dirname(csprojPath)
        projectName == ParseName(csprojPath)
        frameworks == splitSemicolonList(Prop(props, "TargetFrameworks"))
        tfm == Coalesce(Prop(props, "TargetFramework"),
                        IF Len(frameworks) > 0 THEN Some(frameworks[1]) ELSE None)
        outputPathRaw ==
            The(Coalesce(NonBlank(Prop(props, "OutputPath")),
                Coalesce(NonBlank(Prop(props, "BaseOutputPath")),
                         Some(Join(<<<<"bin">>, <<configuration>>, <<"/">>>>)))))
        outputPath == IF IsAbsolute(outputPathRaw) THEN outputPathRaw
                      ELSE Join(<<projectDir, outputPathRaw>>)
        appendTfm == convertMsbuildPropertyToBoolean(Prop(props, "AppendTargetFrameworkToOutputPath"))
        shouldAppendTfm == tfm # None /\ Truthy(The(tfm)) /\ The(Coalesce(appendTfm, Some(TRUE)))
        normalizedOutputParts ==
            LET parts == NonEmptyParts(Split(Normalize(outputPath), "/"))
            IN {ToLowerCase(parts[i]) : i \in 1..Len(parts)}
        outputDir == IF shouldAppendTfm /\ ToLowerCase(The(tfm)) \notin normalizedOutputParts
                     THEN Join(<<outputPath, The(tfm)>>)
                     ELSE outputPath
        assembly == NonBlank(Prop(props, "AssemblyName"))
        targetFileName ==
            The(Coalesce(NonBlank(Prop(props, "TargetFileName")),
                Some((IF assembly # None THEN The(assembly) ELSE projectName)
                     \o The(Coalesce(Prop(props, "TargetExt"), Some(<<".dll">>))))))
    IN Join(<<outputDir, targetFileName>>)

--------------------------------------------------------------------------
\* The filesystem fallback search (CsprojService.findFallbackOutputDll)

\* The segments of p below the directory base, or the empty sequence when p
\* does not lie below it.
RelativeSegments(base, p) ==
    LET b == Segments(base)
        s == Segments(p)
    IN IF Len(s) > Len(b) /\ SubSeq(s, 1, Len(b)) = b
       THEN SubSeq(s, Len(b) + 1, Len(s))
       ELSE <<>>

\* The exclude glob **/{obj,node_modules,.git,.vs}/**
ExcludedDirs == {<<"obj">>, <<"node_modules">>, <<".git">>, <<".vs">>}

IsExcluded(rel) == \E i \in 1..(Len(rel) - 1) : rel[i] \in ExcludedDirs

\* The include glob **/*.dll on the file name
IsDllName(name) == Len(name) > 1 /\ name[Len(name)] = ".dll"

\* The results vscode.workspace.findFiles may return for the files that match:
\* any maxResults of them, in any order.
findFiles(matching, maxResults) ==
    LET n == IF Cardinality(matching) < maxResults THEN Cardinality(matching) ELSE maxResults
    IN {found \in SUBSET matching : Cardinality(found) = n}

PreferredLimit == 2

AnyDebugLimit == 20

AnyDllLimit == 50

\* exact ?? found[0]: a file whose lower-cased base name is <project>.dll when
\* the results hold one, any of the results otherwise.
ExactOrFirst(found, projectName) ==
    LET exact == {u \in found : ToLowerCase(Basename(u)) = ToLowerCase(projectName) \o <<".dll">>}
    IN IF exact # {} THEN exact ELSE found

\* findFallbackOutputDll(csprojUri): the optional paths it may return, given
\* the files on disk.
findFallbackOutputDll(csprojPath, files) ==
    LET projectDir == Dirname(csprojPath)
        projectName == ParseName(csprojPath)
        candidates == {p \in files : LET rel == RelativeSegments(projectDir, p)
                                     IN Len(rel) > 0 /\ ~IsExcluded(rel)}
        underBinDebug(p) == LET rel == RelativeSegments(projectDir, p)
                            IN Len(rel) > 2 /\ rel[1] = <<"bin">> /\ rel[2] = <<"Debug">>
        preferred == {p \in candidates : underBinDebug(p) /\ Basename(p) = projectName \o <<".dll">>}
        anyDebug == {p \in candidates : underBinDebug(p) /\ IsDllName(Basename(p))}
        anyDll == {p \in candidates : IsDllName(Basename(p))}
    IN IF preferred # {}
       THEN {Some(u) : u \in UNION findFiles(preferred, PreferredLimit)}
       ELSE IF anyDebug # {}
       THEN {Some(u) : u \in UNION {ExactOrFirst(found, projectName) :
                                        found \in findFiles(anyDebug, AnyDebugLimit)}}
       ELSE IF anyDll # {}
       THEN {Some(u) : u \in UNION {ExactOrFirst(found, projectName) :
                                        found \in findFiles(anyDll, AnyDllLimit)}}
       ELSE {None}

\* An existence check that takes every path for present.
assumedToExist(p, files) == TRUE

\* fileExists(uri): stat succeeds on the csproj file and on the DLLs on disk.
fileExists(p, files) == Normalize(p) \in files \cup {CsprojPath}

--------------------------------------------------------------------------
\* Launch settings (CsprojService.readLaunchProfileDetails and the builder)

RawString(s) == [t |-> "string", s |-> s]

RawNumber == [t |-> "number", s |-> <<>>]

Url5000 == <<"http://localhost:5000">>

Url9999 == <<"http://localhost:9999">>

\* The "profiles" object of the launch settings file of the model.  A field
\* is an optional raw JSON value; environmentVariables is an optional record
\* of raw values.
LaunchProfiles ==
    [ Web |-> [ object |-> TRUE,
                commandName |-> Some(RawString(<<"Project">>)),
                commandLineArgs |-> Some(RawString(<<"--name", " ", "\"", "a", " ", "b", "\"", " ", " ", "c", "\\", "'", "d">>)),
                applicationUrl |-> Some(RawString(Url5000)),
                environmentVariables |->
                    Some([ASPNETCORE_ENVIRONMENT |-> RawString(<<"Development">>), PORT |-> RawNumber]) ],
      Explicit |-> [ object |-> TRUE,
                     commandName |-> Some(RawString(<<"Project">>)),
                     commandLineArgs |-> None,
                     applicationUrl |-> Some(RawString(Url5000)),
                     environmentVariables |-> Some([ASPNETCORE_URLS |-> RawString(Url9999)]) ],
      EmptyUrls |-> [ object |-> TRUE,
                      commandName |-> Some(RawString(<<"Project">>)),
                      commandLineArgs |-> Some(RawString(<<>>)),
                      applicationUrl |-> Some(RawString(Url5000)),
                      environmentVariables |-> Some([ASPNETCORE_URLS |-> RawString(<<>>)]) ],
      Bare |-> [ object |-> TRUE,
                 commandName |-> Some(RawNumber),
                 commandLineArgs |-> Some(RawString(<<"'", "x", " ", "y">>)),
                 applicationUrl |-> Some(RawString(<<>>)),
                 environmentVariables |-> None ],
      IIS |-> [ object |-> TRUE,
                commandName |-> Some(RawString(<<"IISExpress">>)),
                commandLineArgs |-> None,
                applicationUrl |-> Some(RawString(Url5000)),
                environmentVariables |-> None ],
      NoKind |-> [ object |-> TRUE,
                   commandName |-> Some(RawString(<<>>)),
                   commandLineArgs |-> None,
                   applicationUrl |-> None,
                   environmentVariables |-> None ],
      Scalar |-> [ object |-> FALSE,
                   commandName |-> None,
                   commandLineArgs |-> None,
                   applicationUrl |-> None,
                   environmentVariables |-> None ] ]

\* The profile names a command may be started with; "Missing" is in no file.
ProfileNames == DOMAIN LaunchProfiles \cup {"Missing"}

\* typeof raw === 'string' ? raw : undefined
StringOrUndefined(raw) ==
    IF raw # None /\ The(raw).t = "string" THEN Some(The(raw).s) ELSE None

\* coerceStringRecord(value): the entries whose value is a string
coerceStringRecord(value) ==
    IF value = None THEN <<>>
    ELSE LET record == The(value)
             keys == {k \in DOMAIN record : record[k].t = "string"}
         IN [k \in keys |-> record[k].s]

\* readLaunchProfileDetails(launchSettingsUri, profileName): JSON.parse throws
\* on a malformed file; a file without a profiles object, a name that is not
\* in it and a profile that is no object give undefined.
readLaunchProfileDetails(content, profileName) ==
    CASE content = "malformed" -> [threw |-> TRUE, value |-> None]
      [] content = "noProfiles" -> [threw |-> FALSE, value |-> None]
      [] OTHER ->
           IF profileName \notin DOMAIN LaunchProfiles \/ ~LaunchProfiles[profileName].object
           THEN [threw |-> FALSE, value |-> None]
           ELSE LET record == LaunchProfiles[profileName]
                IN [ threw |-> FALSE,
                     value |-> Some([ commandName |-> StringOrUndefined(record.commandName),
                                      commandLineArgs |-> StringOrUndefined(record.commandLineArgs),
                                      applicationUrl |-> StringOrUndefined(record.applicationUrl),
                                      environmentVariables |->
                                          coerceStringRecord(record.environmentVariables) ]) ]

\* details.commandName && details.commandName !== 'Project'
IsUnsupportedCommand(details) ==
    details.commandName # None /\ Truthy(The(details.commandName))
        /\ The(details.commandName) # <<"Project">>

Quotes == {"\"", "'"}

Whitespace == {" ", "\t"}

\* The loop with args.unshift(current) for args.push(current): the arguments
\* come out in reverse order.
RECURSIVE parseArgsPrepending(_, _, _, _, _, _)
parseArgsPrepending(text, i, current, inQuotes, quoteChar, args) ==
    LET flushed == IF Len(current) > 0 THEN <<current>> \o args ELSE args
    IN IF i > Len(text) THEN flushed
       ELSE LET ch == text[i]
            IN IF ch \in Quotes /\ (~inQuotes \/ ch = quoteChar)
               THEN parseArgsPrepending(text, i + 1, current, ~inQuotes,
                                        IF ~inQuotes THEN ch ELSE "", args)
               ELSE IF ~inQuotes /\ ch \in Whitespace
               THEN parseArgsPrepending(text, i + 1, <<>>, inQuotes, quoteChar, flushed)
               ELSE IF ch = "\\" /\ i + 1 <= Len(text) /\ text[i + 1] \in Quotes \cup {"\\"}
               THEN parseArgsPrepending(text, i + 2, Append(current, text[i + 1]), inQuotes,
                                        quoteChar, args)
               ELSE parseArgsPrepending(text, i + 1, Append(current, ch), inQuotes, quoteChar, args)

\* The loop of parseCommandLineArgs from position i on.
RECURSIVE parseArgsFrom(_, _, _, _, _, _)
parseArgsFrom(text, i, current, inQuotes, quoteChar, args) ==
    LET flushed == IF Len(current) > 0 THEN Append(args, current) ELSE args
    IN IF i > Len(text) THEN flushed
       ELSE LET ch == text[i]
            IN IF ch \in Quotes /\ (~inQuotes \/ ch = quoteChar)
               THEN parseArgsFrom(text, i + 1, current, ~inQuotes,
                                  IF ~inQuotes THEN ch ELSE "", args)
               ELSE IF ~inQuotes /\ ch \in Whitespace
               THEN parseArgsFrom(text, i + 1, <<>>, inQuotes, quoteChar, flushed)
               ELSE IF ch = "\\" /\ i + 1 <= Len(text) /\ text[i + 1] \in Quotes \cup {"\\"}
               THEN parseArgsFrom(text, i + 2, Append(current, text[i + 1]), inQuotes, quoteChar, args)
               ELSE parseArgsFrom(text, i + 1, Append(current, ch), inQuotes, quoteChar, args)

\* parseCommandLineArgs(text)
parseCommandLineArgs(text) ==
    IF text = None \/ ~Truthy(The(text)) THEN <<>>
    ELSE parseArgsFrom(The(text), 1, <<>>, FALSE, "", <<>>)

\* !env.ASPNETCORE_URLS
LacksAspnetcoreUrls(env) ==
    ~("ASPNETCORE_URLS" \in DOMAIN env /\ Truthy(env["ASPNETCORE_URLS"]))

\* const env = {...(details.environmentVariables ?? {})};
\* if (details.applicationUrl && !env.ASPNETCORE_URLS) env.ASPNETCORE_URLS = details.applicationUrl;
mergeEnvironment(details) ==
    LET env == details.environmentVariables
    IN IF details.applicationUrl # None /\ Truthy(The(details.applicationUrl))
          /\ LacksAspnetcoreUrls(env)
       THEN [k \in DOMAIN env \cup {"ASPNETCORE_URLS"} |->
                IF k = "ASPNETCORE_URLS" THEN The(details.applicationUrl) ELSE env[k]]
       ELSE env

ConfigurationName == "dotnet-start"

\* The configuration with args: [resolved.binaryUri.fsPath] alone: the
\* arguments of the profile are not passed on.
configurationWithoutArguments(configurationName, binaryPath, details) ==
    [ type |-> "coreclr",
      request |-> "launch",
      name |-> configurationName,
      program |-> "dotnet",
      args |-> <<binaryPath>>,
      cwd |-> ProjectDir,
      console |-> "integratedTerminal",
      internalConsoleOptions |-> "neverOpen",
      env |-> mergeEnvironment(details),
      resolvedFlag |-> FALSE ]

\* The debug configuration buildCoreclrDotnetStartConfiguration returns.  The
\* field resolvedFlag stands for the property DOTNET_START_RESOLVED_FLAG,
\* which this builder does not set.
coreclrConfiguration(configurationName, binaryPath, details) ==
    [ type |-> "coreclr",
      request |-> "launch",
      name |-> configurationName,
      program |-> "dotnet",
      args |-> <<binaryPath>> \o parseCommandLineArgs(details.commandLineArgs),
      cwd |-> ProjectDir,
      console |-> "integratedTerminal",
      internalConsoleOptions |-> "neverOpen",
      env |-> mergeEnvironment(details),
      resolvedFlag |-> FALSE ]

\* CsprojInstance.createVscodeDebugConfiguration, whose file is not part of
\* the sources: the configuration of the builder, marked as already resolved.
createVscodeDebugConfiguration(configuration) ==
    IF configuration = None THEN None
    ELSE Some([The(configuration) EXCEPT !.resolvedFlag = TRUE])

\* A provider that takes no configuration for resolved.
neverResolved(debugConfiguration) == FALSE

\* The provider's test of the marker:
\* Boolean(debugConfiguration[constants.DOTNET_START_RESOLVED_FLAG])
alreadyResolved(debugConfiguration) == debugConfiguration.resolvedFlag

--------------------------------------------------------------------------
\* What a dotnet msbuild subprocess may answer

Entry(name, s) == [name |-> name, t |-> "string", s |-> s]

\* An output is blank, a JSON document with a Properties object ("json"), a
\* JSON document without one ("jsonOther"), "Name = value" lines ("lines") or
\* one line of other text ("text").
Document(form, entries) == [form |-> form, entries |-> entries]

Exited(output) == [kind |-> "ok", output |-> output]

ExecFailed == [kind |-> "error", output |-> Document("blank", <<>>)]

ExecTimedOut == [kind |-> "timeout", output |-> Document("blank", <<>>)]

RelativeBuiltDll == <<"bin", "/", "Debug", "/", "net8.0", "/", "App", ".dll">>

OutputSamples ==
    { Document("blank", <<>>),
      Document("text", <<>>),
      Document("jsonOther", <<>>),
      Document("json", <<Entry("TargetPath", BuiltDll), Entry("TargetFramework", <<"net8.0">>)>>),
      Document("json", <<Entry("TargetPath", <<" ">> \o RelativeBuiltDll \o <<" ">>)>>),
      Document("json", <<Entry("TargetPath", CustomDll)>>),
      Document("json", <<Entry("TargetPath", <<" ", " ">>), Entry("TargetFramework", <<"net8.0">>),
                         Entry("AssemblyName", <<"App">>)>>),
      Document("json", <<[name |-> "TargetPath", t |-> "number", s |-> <<>>],
                         Entry("Unrelated", <<"x">>)>>),
      Document("lines", <<Entry("TargetFrameworks", <<"net8.0", ";", "net9.0">>),
                          Entry("TargetPath", BuiltDll)>>) }

ToolOutcomes == {ExecFailed, ExecTimedOut} \cup {Exited(o) : o \in OutputSamples}

\* The exception of a failed query escaping tryGetProjectProperties.
QueryRethrown == [threw |-> TRUE, value |-> None, import |-> FALSE]

\* catch { return undefined; } of tryGetProjectProperties
QueryFailed == [threw |-> FALSE, value |-> None, import |-> FALSE]

\* tryGetProjectProperties up to its decision: the properties, undefined, or
\* the retry by a temporary targets file (import).
tryGetProjectProperties(outcome) ==
    IF outcome.kind # "ok" THEN QueryFailed
    ELSE LET parsedAll == parseMsbuildProperties(outcome.output)
         IN IF parsedAll.threw THEN QueryFailed
            ELSE LET parsed == pickProperties(parsedAll.value, PropertyNameSet)
                 IN IF hasAny(parsed)
                    THEN [threw |-> FALSE, value |-> Some(parsed), import |-> FALSE]
                    ELSE [threw |-> FALSE, value |-> None, import |-> TRUE]

\* The try block of tryGetProjectPropertiesViaTargetsImport after mkdtemp:
\* writeFile, the subprocess and the parse; "threw" is an exception the catch
\* clause of the function receives.
targetsImportTry(writeOk, outcome) ==
    IF ~writeOk \/ outcome.kind # "ok" THEN [threw |-> TRUE, value |-> None]
    ELSE LET parsedAll == parseMsbuildProperties(outcome.output)
         IN IF parsedAll.threw THEN [threw |-> TRUE, value |-> None]
            ELSE LET parsed == pickProperties(parsedAll.value, PropertyNameSet)
                 IN [threw |-> FALSE, value |-> IF hasAny(parsed) THEN Some(parsed) ELSE None]

\* A temporary directory on disk; rmFailed tells that a removal of it was
\* tried and failed.
TempDir(id) == [id |-> id, rmFailed |-> FALSE]

\* The temporary directories left once the finally clause skips the removal.
KeepTempDir(dirs, dir, removed) == dirs

\* finally { try { await fs.rm(tempDir, { recursive: true, force: true }) }
\*           catch { /* ignore cleanup failures */ } }
\* fs.rm removes the directory, or fails and leaves it, which the catch
\* clause ignores.
RemoveTempDir(dirs, dir, removed) ==
    IF removed THEN {d \in dirs : d.id \notin dir}
    ELSE {[d EXCEPT !.rmFailed = @ \/ d.id \in dir] : d \in dirs}

--------------------------------------------------------------------------
\* The line parser of DotnetStartDebugService

GarbageLine == <<"MSBUILD : error MSB1009: Project file does not exist.">>

\* The property names a line's name starts with, case ignored.
PrefixesOf(name) ==
    {name} \cup (IF name = "TargetFrameworks" THEN {"TargetFramework"} ELSE {})

\* The text of a "Name = value" line, trimmed
LineText(e) == Trim(<<e.name, " ", "=", " ">> \o e.s)

\* parseMsbuildGetPropertyOutput(propertyName, output): the value of the first
\* line that starts with the name and has a non-blank value after "="; the
\* only line of a one-line output otherwise.
parseMsbuildGetPropertyOutput(propertyName, output) ==
    LET lines == IF output.form = "lines" THEN output.entries ELSE <<>>
        hits == {i \in 1..Len(lines) : propertyName \in PrefixesOf(lines[i].name)
                                          /\ ~IsBlank(lines[i].s)}
    IN IF hits # {}
       THEN Some(Trim(lines[CHOOSE i \in hits : \A j \in hits : i <= j].s))
       ELSE IF output.form = "text" THEN Some(GarbageLine)
       ELSE IF output.form = "lines" /\ Len(lines) = 1 THEN Some(LineText(lines[1]))
       ELSE None

\* DotnetStartDebugService.tryGetMsbuildProjectProperties: undefined when the
\* subprocess fails, the record of the parsed properties otherwise.
tryGetMsbuildProjectProperties(outcome) ==
    IF outcome.kind # "ok" THEN None
    ELSE LET found == {n \in PropertyNameSet :
                          parseMsbuildGetPropertyOutput(n, outcome.output) # None}
         IN Some([n \in found |-> The(parseMsbuildGetPropertyOutput(n, outcome.output))])

\* DotnetStartDebugService.parseMsbuildProperties(output, propertyNames)
legacyParseMsbuildProperties(output, propertyNames) ==
    LET found == {n \in propertyNames : parseMsbuildGetPropertyOutput(n, output) # None}
    IN [threw |-> FALSE,
        value |-> [n \in found |-> The(parseMsbuildGetPropertyOutput(n, output))]]

\* CsprojService.parseMsbuildProperties(output, propertyNames): the JSON
\* parser of MsbuildProjectPropertiesService, then pickProperties.
csprojParseMsbuildProperties(output, propertyNames) ==
    LET parsed == parseMsbuildProperties(output)
    IN IF parsed.threw THEN parsed
       ELSE [threw |-> FALSE, value |-> pickProperties(parsed.value, propertyNames)]

--------------------------------------------------------------------------
\* The parser of unnamed/part_004: JSON first, lines otherwise

\* One line of a JSON document printed by dotnet msbuild
JsonLine(text) == [name |-> "", s |-> <<>>, text |-> text]

\* The lines of a document that prints each property as a header line
\* "Name:" followed by a line with its value; the line of a blank value is
\* dropped with the other empty lines.
RECURSIVE HeadedLines(_)
HeadedLines(entries) ==
    IF entries = <<>> THEN <<>>
    ELSE LET e == Head(entries)
         IN <<[name |-> e.name, s |-> <<>>, text |-> <<e.name, ":">>]>>
            \o (IF IsBlank(e.s) THEN <<>> ELSE <<[name |-> "", s |-> <<>>, text |-> Trim(e.s)]>>)
            \o HeadedLines(Tail(entries))

\* output.split('\n').map(trim).filter(nonempty): each line with the name it
\* starts with ("" when it starts with no identifier), the text after its
\* "=", and its whole text.
OutputLines(output) ==
    CASE output.form = "lines" ->
           [i \in 1..Len(output.entries) |->
               [name |-> output.entries[i].name, s |-> output.entries[i].s,
                text |-> LineText(output.entries[i])]]
      [] output.form = "headed" -> HeadedLines(output.entries)
      [] output.form = "text" -> <<JsonLine(GarbageLine)>>
      [] output.form = "json" ->
           <<JsonLine(<<"{">>), JsonLine(<<"\"", "Properties", "\"", ":", " ", "{">>)>>
           \o [i \in 1..Len(output.entries) |->
                  JsonLine(<<"\"", output.entries[i].name, "\"", ":", " ", "\"">>
                           \o output.entries[i].s \o <<"\"">>)]
           \o <<JsonLine(<<"}">>), JsonLine(<<"}">>)>>
      [] output.form = "jsonOther" ->
           <<JsonLine(<<"{">>), JsonLine(<<"\"", "Items", "\"", ":", " ", "{", "}">>),
             JsonLine(<<"}">>)>>
      [] OTHER -> <<>>

\* The test of the next line left out: no line is taken for a header.
noLineIsHeader(line) == FALSE

\* /^[A-Za-z_][A-Za-z0-9_.]*\s*[:=]\s*$/.test(line)
looksLikeHeaderLine(line) == line.name # "" /\ IsBlank(line.s)

\* The loop of parseMsbuildGetPropertyOutput from line i on: a line counts
\* when it starts with the name and the name ends there; its value is the
\* text after "=", or the next line when the line is a header and the next
\* line is not one.
RECURSIVE scanPropertyLines(_, _, _)
scanPropertyLines(propertyName, lines, i) ==
    IF i > Len(lines) THEN None
    ELSE LET line == lines[i]
             startsWith == propertyName \in PrefixesOf(line.name)
             boundary == line.name = propertyName
         IN IF ~startsWith \/ ~boundary THEN scanPropertyLines(propertyName, lines, i + 1)
            ELSE IF ~IsBlank(line.s) THEN Some(Trim(line.s))
            ELSE IF i + 1 <= Len(lines) /\ ~looksLikeHeaderLine(lines[i + 1])
            THEN Some(lines[i + 1].text)
            ELSE scanPropertyLines(propertyName, lines, i + 1)

\* parseMsbuildGetPropertyOutput(propertyName, output) of unnamed/part_004
parseMsbuildGetPropertyOutputWithBoundary(propertyName, output) ==
    LET lines == OutputLines(output)
        found == scanPropertyLines(propertyName, lines, 1)
    IN IF found # None THEN found
       ELSE IF Len(lines) = 1 THEN Some(lines[1].text)
       ELSE None

\* tryParseMsbuildGetPropertyJson(output, propertyNames): the requested
\* properties of a JSON document, undefined when there is none.
tryParseMsbuildGetPropertyJson(output, propertyNames) ==
    IF output.form # "json" THEN None
    ELSE LET result == pickProperties(TrimmedStringEntries(output.entries), propertyNames)
         IN IF DOMAIN result # {} THEN Some(result) ELSE None

\* parseMsbuildProperties(output, propertyNames) of unnamed/part_004
parseMsbuildPropertiesJsonOrLines(output, propertyNames) ==
    LET fromJson == tryParseMsbuildGetPropertyJson(output, propertyNames)
        found == {n \in propertyNames :
                     parseMsbuildGetPropertyOutputWithBoundary(n, output) # None}
    IN [threw |-> FALSE,
        value |-> IF fromJson # None THEN The(fromJson)
                  ELSE [n \in found |->
                           The(parseMsbuildGetPropertyOutputWithBoundary(n, output))]]

--------------------------------------------------------------------------
\* The results of resolveTargetBinaryPath

Resolved(path, source) == [binaryPath |-> path, source |-> source]

\* CsprojService.resolveTargetBinaryPath with properties at hand: TargetPath,
\* trimmed and made absolute, or the computed path; both tagged 'msbuild'.
resolveFromProperties(props) ==
    LET directTargetPath == NonBlank(Prop(props, "TargetPath"))
    IN IF directTargetPath # None
       THEN LET normalized == Trim(The(directTargetPath))
                absolute == IF IsAbsolute(normalized) THEN normalized
                            ELSE Join(<<ProjectDir, normalized>>)
            IN Resolved(UriFile(absolute), "msbuild")
       ELSE Resolved(UriFile(computeExpectedTargetPath(CsprojPath, "Debug", props)), "msbuild")

\* The last resort of CsprojService: <projectDir>/bin/Debug/<projectName>.dll
guessedPath == Join(<<ProjectDir, <<"bin">>, <<"Debug">>, ProjectName \o <<".dll">>>>)

\* The result of the search, tagged as if the tool had reported it.
resolveTaggedAsTool(found) ==
    IF found # None THEN Resolved(The(found), "msbuild")
    ELSE Resolved(UriFile(guessedPath), "msbuild")

\* The result of the fallback search of CsprojService
resolveFromFallback(found) ==
    IF found # None THEN Resolved(The(found), "fallback-search")
    ELSE Resolved(UriFile(guessedPath), "fallback-search")

\* CsprojService.resolveTargetBinaryPath as a whole, given the answer of the
\* property query and what the fallback search returns when it is run:
\* TargetPath, the computed path when there is one, the search otherwise.
resolveTargetBinaryPath(queried, found) ==
    LET searched == [searched |-> TRUE, result |-> resolveFromFallback(found)]
    IN IF queried = None THEN searched
       ELSE IF NonBlank(Prop(The(queried), "TargetPath")) # None
       THEN [searched |-> FALSE, result |-> resolveFromProperties(The(queried))]
       ELSE LET computed == computeExpectedTargetPath(CsprojPath, "Debug", The(queried))
            IN IF Truthy(computed)
               THEN [searched |-> FALSE, result |-> Resolved(UriFile(computed), "msbuild")]
               ELSE searched

\* DotnetStartDebugService.resolveTargetBinaryPath after a search that found
\* nothing: TargetPath as reported, the computed path, or the project file.
legacyResolveFromProperties(props) ==
    IF props = None THEN Resolved(UriFile(CsprojPath), "fallback-search")
    ELSE LET directTargetPath == NonBlank(Prop(The(props), "TargetPath"))
         IN IF directTargetPath # None
            THEN Resolved(UriFile(The(directTargetPath)), "msbuild")
            ELSE Resolved(UriFile(computeExpectedTargetPath(CsprojPath, "Debug", The(props))),
                          "msbuild")

\* getLaunchSettingsUriForProject: Properties/launchSettings.json, then
\* launchSettings.json beside the project file.
getLaunchSettingsUriForProject(launchFile) ==
    CASE launchFile.at = "Properties" ->
             Some(Join(<<ProjectDir, <<"Properties">>, <<"launchSettings", ".json">>>>))
      [] launchFile.at = "root" -> Some(Join(<<ProjectDir, <<"launchSettings", ".json">>>>))
      [] OTHER -> None

\* The error the builder reports before any resolution, "" when the profile
\* is usable.
validationError(launchFile, name) ==
    IF getLaunchSettingsUriForProject(launchFile) = None THEN "No launchSettings.json found"
    ELSE LET read == readLaunchProfileDetails(launchFile.content, name)
         IN IF read.threw THEN "Failed to read launch profile"
            ELSE IF read.value = None THEN "Launch profile was not found"
            ELSE IF IsUnsupportedCommand(The(read.value)) THEN "Only Project is supported"
            ELSE ""

LaunchFiles ==
    { [at |-> "none", content |-> "profiles"], [at |-> "Properties", content |-> "profiles"],
      [at |-> "root", content |-> "profiles"], [at |-> "Properties", content |-> "malformed"],
      [at |-> "Properties", content |-> "noProfiles"] }

--------------------------------------------------------------------------
\* The saved selection (DotnetStartManager; the same code is in extension.ts)

\* The second project of the workspace
Csproj2Path == <<"/", "repo", "/", "App2", "/", "App2", ".csproj">>

\* The first project under a path that differs in case only
CsprojPathLowerCase == ToLowerCase(CsprojPath)

\* uri.toString() of a file URI
UriToString(p) == <<"file://">> \o p

\* vscode.Uri.parse(stored).fsPath
UriParse(stored) == Tail(stored)

NothingSaved == [project |-> None, profile |-> None]

\* The outcome of a step of a command: the workspace state after it, its
\* value, the pickers it showed and the error messages it showed.
Outcome(s, value, prompts, messages) ==
    [saved |-> s, value |-> value, prompts |-> prompts, errors |-> messages]

\* normalizeFsPath(p)
normalizeFsPath(p, platform) ==
    IF platform = "win32" THEN ToLowerCase(Normalize(p)) ELSE Normalize(p)

\* getSelectedProject()
getSelectedProject(s) ==
    IF s.project = None \/ ~Truthy(The(s.project)) THEN None
    ELSE Some(UriParse(The(s.project)))

\* getSelectedProfile()
getSelectedProfile(s) == s.profile

\* clearSelectedProfile()
clearSelectedProfile(s) == [s EXCEPT !.profile = None]

\* setSelectedProject without the test of the previous project: the saved
\* profile is kept.
setWithoutClearing(s, platform, projectUri) ==
    [s EXCEPT !.project = Some(UriToString(projectUri))]

\* setSelectedProject(projectUri)
setSelectedProject(s, platform, projectUri) ==
    LET previous == getSelectedProject(s)
        cleared == IF /\ previous # None
                      /\ normalizeFsPath(The(previous), platform)
                             # normalizeFsPath(projectUri, platform)
                   THEN clearSelectedProfile(s)
                   ELSE s
    IN [cleared EXCEPT !.project = Some(UriToString(projectUri))]

\* setSelectedProfile left out: nothing is saved.
profileNotSaved(s, name) == s

\* setSelectedProfile(profileName)
setSelectedProfile(s, name) == [s EXCEPT !.profile = Some(name)]

\* clearState that forgets the project only
clearProjectOnly(s) == [s EXCEPT !.project = None]

\* clearState()
clearState(s) == [s EXCEPT !.project = None, !.profile = None]

\* selectStartProject(): an error when the workspace has no project, the
\* picker otherwise; the project picked is saved.
selectStartProject(s, ws, choice) ==
    IF ws.csprojs = {}
    THEN Outcome(s, None, <<>>, <<"No .csproj files found in this workspace.">>)
    ELSE IF choice = None \/ The(choice) \notin ws.csprojs
    THEN Outcome(s, None, <<"project">>, <<>>)
    ELSE Outcome(setSelectedProject(s, ws.platform, The(choice)), choice, <<"project">>, <<>>)

\* ensureSelectedProject()
ensureSelectedProject(s, ws, choice) ==
    IF getSelectedProject(s) # None THEN Outcome(s, getSelectedProject(s), <<>>, <<>>)
    ELSE selectStartProject(s, ws, choice)

ProjectKeys == {"App", "App2"}

\* Properties/launchSettings.json of a project: missing, malformed, or
\* holding the profiles of these names
LaunchSettings(state, names) == [state |-> state, names |-> names]

\* The launch settings beside the project file
LaunchSettingsOf(ws, csprojUri) ==
    ws.launch[IF csprojUri = Csproj2Path THEN "App2" ELSE "App"]

\* pickLaunchProfileInternal(csprojUri, options): an error when there is no
\* profile to pick, the only profile without a picker, the picker otherwise
pickLaunchProfileInternal(s, ws, csprojUri, choice) ==
    LET settings == LaunchSettingsOf(ws, csprojUri)
        names == settings.names
        offered == {names[i] : i \in 1..Len(names)}
    IN CASE settings.state = "missing" ->
              Outcome(s, None, <<>>, <<"No launchSettings.json found">>)
         [] settings.state = "malformed" ->
              Outcome(s, None, <<>>, <<"Failed to read launch profiles">>)
         [] Len(names) = 0 ->
              Outcome(s, None, <<>>, <<"No launch profiles found in launchSettings.json.">>)
         [] Len(names) = 1 -> Outcome(s, Some(names[1]), <<>>, <<>>)
         [] OTHER ->
              Outcome(s, IF choice # None /\ The(choice) \in offered THEN choice ELSE None,
                      <<"profile">>, <<>>)

\* selectLaunchProfile(csprojUri): the profile picked is saved.
selectLaunchProfile(s, ws, csprojUri, choice) ==
    LET picked == pickLaunchProfileInternal(s, ws, csprojUri, choice)
    IN IF picked.value = None THEN picked
       ELSE [picked EXCEPT !.saved = setSelectedProfile(s, The(picked.value))]

\* ensureSelectedProfile without the look at the saved profile: the profile
\* is selected anew on every run.
profileSelectedAnew(s, ws, csprojUri, choice) == selectLaunchProfile(s, ws, csprojUri, choice)

\* ensureSelectedProfile(csprojUri)
ensureSelectedProfile(s, ws, csprojUri, choice) ==
    IF getSelectedProfile(s) # None THEN Outcome(s, getSelectedProfile(s), <<>>, <<>>)
    ELSE selectLaunchProfile(s, ws, csprojUri, choice)

\* selectLaunchProfileOnce(csprojUri): nothing is saved.
selectLaunchProfileOnce(s, ws, csprojUri, choice) ==
    pickLaunchProfileInternal(s, ws, csprojUri, choice)

\* What is known of a command: its name, the start action chosen, the
\* workspace state before it, the pickers and errors it showed, the project
\* its project picker returned and the debugging it started.
Command(name, action, before, prompts, messages, picked, started) ==
    [command |-> name, action |-> action, before |-> before, prompts |-> prompts,
     errors |-> messages, picked |-> picked, started |-> started]

NoCommand == Command("none", "none", NothingSaved, <<>>, <<>>, None, None)

--------------------------------------------------------------------------
\* State

VARIABLES
    rev,            \* the revision of the code that runs
    files,          \* the DLLs on disk
    launchFile,     \* where launchSettings.json lies and what it holds
    tempDirs,       \* the temporary directories that exist
    pc,             \* the position of the running call
    attempts,       \* the calls started so far
    entry,          \* the function the call entered by
    caller,         \* "command", or "provider" inside resolveDebugConfiguration
    profileName,    \* the launch profile the call was started with
    details,        \* the launch profile details read, optional
    tool,           \* what dotnet msbuild answers during this resolution
    props,          \* the properties the query returned, optional
    tempDir,        \* the temporary directory of the running import, optional
    importResult,   \* the outcome of the import's try block, optional
    resolved,       \* the result of resolveTargetBinaryPath, optional
    ret,            \* where resolveTargetBinaryPath returns to
    lastCheck,      \* the last fileExists check: its path and answer, optional
    config,         \* the configuration the builder returned, optional
    handed,         \* the configuration handed to startDebugging, optional
    final,          \* the configuration the provider returned to the host
    build,          \* the running dotnet build: child process, timer, token
    buildResult,    \* what runDotnetBuild returned (ok), optional
    count,          \* per call: subprocesses, resolutions, searches, launches
    errors,         \* the error messages shown during the call
    threw,          \* an exception escaped the call
    fn,             \* a call of one of the pure helpers: its input and result
    workspace,      \* the platform, the projects found and their launch settings
    saved,          \* the workspace state: the saved project and profile
    ui,             \* the last command: what it showed, picked and started
    prev,           \* the command before the last
    pickers         \* the commands that wait for the answer of a picker

vars ==
    << rev, files, launchFile, tempDirs, pc, attempts, entry, caller, profileName, details,
       tool, props, tempDir, importResult, resolved, ret, lastCheck, config, handed, final,
       build, buildResult, count, errors, threw, fn, workspace, saved, ui, prev, pickers >>

selection == <<workspace, saved, ui, prev, pickers>>

world == <<rev, launchFile, fn, selection>>

\* No command has touched the selection.
SelectionAtRest ==
    /\ workspace = [platform |-> "linux", csprojs |-> {CsprojPath},
                    launch |-> [k \in ProjectKeys |-> LaunchSettings("ok", <<"Web">>)]]
    /\ saved = NothingSaved
    /\ ui = NoCommand
    /\ prev = NoCommand
    /\ pickers = {}

resolution == <<tool, props, tempDir, importResult, resolved, ret, lastCheck>>

debugging == <<config, handed, final>>

\* No helper is being called.
NoCall == [op |-> "none", input |-> <<>>, done |-> FALSE, output |-> <<>>]

IdleBuild ==
    [ child |-> "none", kind |-> "none", status |-> "none", killedByTimeout |-> FALSE,
      killSent |-> FALSE, cancelRequested |-> FALSE, hasToken |-> FALSE ]

ZeroCount ==
    [ builds |-> 0, resolves |-> 0, queries |-> 0, searches |-> 0, temps |-> 0,
      startDebugging |-> 0, launches |-> 0, firstMissing |-> FALSE ]

Init ==
    /\ rev \in {"CsprojService", "DotnetStartDebugService"}
    /\ files \in InitialDisks
    /\ launchFile \in LaunchFiles
    /\ tempDirs = {}
    /\ pc = "idle"
    /\ attempts = 0
    /\ entry = "none"
    /\ caller = "command"
    /\ profileName = "Web"
    /\ details = None
    /\ tool = None
    /\ props = None
    /\ tempDir = None
    /\ importResult = None
    /\ resolved = None
    /\ ret = "checkExists"
    /\ lastCheck = None
    /\ config = None
    /\ handed = None
    /\ final = None
    /\ build = IdleBuild
    /\ buildResult = None
    /\ count = ZeroCount
    /\ errors = {}
    /\ threw = FALSE
    /\ fn = NoCall
    /\ SelectionAtRest

\* A new call starts once the one before it has ended.
Begin(e, name, token, given) ==
    /\ pc \in {"idle", "done"}
    /\ attempts < MaxAttempts
    /\ attempts' = attempts + 1
    /\ entry' = e
    /\ caller' = "command"
    /\ profileName' = name
    /\ details' = None
    /\ tool' = None
    /\ props' = None
    /\ tempDir' = None
    /\ importResult' = None
    /\ resolved' = None
    /\ ret' = "checkExists"
    /\ lastCheck' = None
    /\ config' = None
    /\ handed' = given
    /\ final' = None
    /\ build' = [IdleBuild EXCEPT !.hasToken = token]
    /\ buildResult' = None
    /\ count' = ZeroCount
    /\ errors' = {}
    /\ threw' = FALSE
    /\ UNCHANGED <<world, files, tempDirs>>

--------------------------------------------------------------------------
\* Entry points

\* The command dotnetStart.start with "run-selected" and a saved selection:
\* startDotnetDebugging, then initiateVscodeDebugger up to its build.
StartDotnetDebugging ==
    /\ rev = "CsprojService"
    /\ \E name \in ProfileNames : Begin("dotnetStart.start", name, FALSE, None)
    /\ pc' = "runDotnetBuild"

\* A direct call of CsprojService.runDotnetBuild with a cancellation token.
CallRunDotnetBuild ==
    /\ rev = "CsprojService"
    /\ Begin("runDotnetBuild", "Web", TRUE, None)
    /\ pc' = "runDotnetBuild"

\* The configuration launch.json holds for the extension
\* (getDotnetStartConfiguration), under the extension's name or another.
StubConfiguration(name) ==
    [type |-> "coreclr", request |-> "launch", name |-> name, program |-> "dotnet",
     resolvedFlag |-> FALSE]

\* The host starts debugging from a launch.json configuration of type coreclr
\* and asks the provider to resolve it.
HostStartsDebugging ==
    /\ rev = "CsprojService"
    /\ \E name \in ProfileNames, given \in {ConfigurationName, ".NET Core Launch"} :
         Begin("resolveDebugConfiguration", name, FALSE, Some(StubConfiguration(given)))
    /\ pc' = "resolveDebugConfiguration"

\* The entries that run the code of unnamed/part_001.
ExtensionEntries == {"dotnetStart.start", "resolveDebugConfiguration"}

\* A call of DotnetStartDebugService.buildCoreclrDotnetStartConfiguration.
CallBuildConfiguration ==
    /\ rev = "DotnetStartDebugService"
    /\ \E name \in ProfileNames : Begin("buildCoreclrDotnetStartConfiguration", name, FALSE, None)
    /\ pc' = "validateProfile"

--------------------------------------------------------------------------
\* CsprojService.runDotnetBuild

\* How the spawned child behaves: it fails to spawn, it finishes on its own,
\* it hangs until a signal ends it, or it hangs and ignores SIGTERM.
ChildKinds == {"spawnFails", "finishes", "hangs", "ignoresSigterm"}

\* The entry of runDotnetBuild: the skip switch of the environment, or the
\* spawn of dotnet build with its timer and its cancellation listener.
RunDotnetBuild ==
    /\ pc = "runDotnetBuild"
    /\ \E skipBuild \in BOOLEAN :
         IF skipBuild
         THEN /\ buildResult' = Some(TRUE)
              /\ pc' = "buildReturned"
              /\ UNCHANGED <<build, count>>
         ELSE /\ \E kind \in ChildKinds :
                    build' = [build EXCEPT !.child = "running", !.kind = kind]
              /\ count' = [count EXCEPT !.builds = @ + 1]
              /\ pc' = "awaitClose"
              /\ UNCHANGED buildResult
    /\ UNCHANGED <<world, files, tempDirs, attempts, entry, caller, profileName, details,
                   resolution, debugging, errors, threw>>

\* The timer of runDotnetBuild fires: killedByTimeout = true; child.kill().
BuildTimeout ==
    /\ pc = "awaitClose"
    /\ ~build.killedByTimeout
    /\ build' = [build EXCEPT !.killedByTimeout = TRUE, !.killSent = TRUE]
    /\ UNCHANGED <<world, files, tempDirs, pc, attempts, entry, caller, profileName, details,
                   resolution, debugging, buildResult, count, errors, threw>>

\* The caller cancels: the listener of the token calls child.kill().
BuildCancelled ==
    /\ pc = "awaitClose"
    /\ build.hasToken
    /\ ~build.cancelRequested
    /\ build' = [build EXCEPT !.cancelRequested = TRUE, !.killSent = TRUE]
    /\ UNCHANGED <<world, files, tempDirs, pc, attempts, entry, caller, profileName, details,
                   resolution, debugging, buildResult, count, errors, threw>>

\* The child process ends: on its own with an exit code, or by the signal of
\* a kill it does not ignore.  A build that exits with 0 has written its output.
ChildExit ==
    /\ pc = "awaitClose"
    /\ build.child = "running"
    /\ \/ build.kind = "finishes"
       \/ build.kind = "hangs" /\ build.killSent
    /\ \E status \in (IF build.kind = "finishes" THEN {"0", "1"} ELSE {})
                       \cup (IF build.killSent THEN {"SIGTERM"} ELSE {}) :
         /\ build' = [build EXCEPT !.child = "exited", !.status = status]
         /\ IF status = "0"
            THEN \E output \in BuildOutputs : files' = files \cup output
            ELSE UNCHANGED files
    /\ UNCHANGED <<world, tempDirs, pc, attempts, entry, caller, profileName, details,
                   resolution, debugging, buildResult, count, errors, threw>>

\* The promise runDotnetBuild awaits resolves on the child's 'close' event;
\* the function then clears the timer and returns ok when the code is 0.
ChildClose ==
    /\ pc = "awaitClose"
    /\ build.child = "exited"
    /\ build' = IdleBuild
    /\ buildResult' = Some(build.status = "0")
    /\ pc' = "buildReturned"
    /\ UNCHANGED <<world, files, tempDirs, attempts, entry, caller, profileName, details,
                   resolution, debugging, count, errors, threw>>

\* The child's 'error' event rejects the promise; the catch clause returns
\* a failure.
ChildError ==
    /\ pc = "awaitClose"
    /\ build.child = "running"
    /\ build.kind = "spawnFails"
    /\ build' = IdleBuild
    /\ buildResult' = Some(FALSE)
    /\ pc' = "buildReturned"
    /\ UNCHANGED <<world, files, tempDirs, attempts, entry, caller, profileName, details,
                   resolution, debugging, count, errors, threw>>

\* The direct call of runDotnetBuild returns to its caller.
RunDotnetBuildReturned ==
    /\ pc = "buildReturned"
    /\ entry = "runDotnetBuild"
    /\ pc' = "done"
    /\ UNCHANGED <<world, files, tempDirs, attempts, entry, caller, profileName, details,
                   resolution, debugging, build, buildResult, count, errors, threw>>

\* runDotnetBuildAndPipeOutput returns to buildDotnetProject, which reports a
\* failed build; its caller goes on to create the configuration either way.
BuildDotnetProject ==
    /\ pc = "buildReturned"
    /\ entry \in ExtensionEntries
    /\ errors' = IF The(buildResult) THEN errors ELSE errors \cup {"dotnet build failed"}
    /\ pc' = "validateProfile"
    /\ UNCHANGED <<world, files, tempDirs, attempts, entry, caller, profileName, details,
                   resolution, debugging, build, buildResult, count, threw>>

--------------------------------------------------------------------------
\* buildCoreclrDotnetStartConfiguration and resolveTargetBinaryPath

\* The builder up to its first resolution: it locates launchSettings.json,
\* reads the profile and rejects a command other than "Project".
ValidateLaunchProfile ==
    /\ pc = "validateProfile"
    /\ LET problem == validationError(launchFile, profileName)
       IN IF problem # ""
          THEN /\ errors' = errors \cup {problem}
               /\ config' = None
               /\ pc' = "configurationReturned"
               /\ UNCHANGED <<details, ret>>
          ELSE /\ details' = readLaunchProfileDetails(launchFile.content, profileName).value
               /\ ret' = "checkExists"
               /\ pc' = "resolveTargetBinaryPath"
               /\ UNCHANGED <<errors, config>>
    /\ UNCHANGED <<world, files, tempDirs, attempts, entry, caller, profileName, tool, props,
                   tempDir, importResult, resolved, lastCheck, handed, final, build,
                   buildResult, count, threw>>

\* CsprojService.resolveTargetBinaryPath starts with the property query
\* (tryGetProjectProperties up to its decision).
QueryProperties ==
    /\ pc = "resolveTargetBinaryPath"
    /\ rev = "CsprojService"
    /\ \E outcome \in ToolOutcomes :
         /\ tool' = Some(outcome)
         /\ LET r == tryGetProjectProperties(outcome)
            IN /\ threw' = r.threw
               /\ props' = r.value
               /\ pc' = IF r.threw THEN "done"
                        ELSE IF r.import THEN "targetsImport"
                        ELSE "useProperties"
    /\ count' = [count EXCEPT !.resolves = @ + 1, !.queries = @ + 1]
    /\ resolved' = None
    /\ UNCHANGED <<world, files, tempDirs, attempts, entry, caller, profileName, details,
                   tempDir, importResult, ret, lastCheck, debugging, build, buildResult,
                   errors>>

\* tryGetProjectPropertiesViaTargetsImport creates its temporary directory;
\* when mkdtemp throws, the catch clause of tryGetProjectProperties answers.
TargetsImportMkdtemp ==
    /\ pc = "targetsImport"
    /\ \E created \in BOOLEAN :
         IF created
         THEN /\ tempDir' = Some(<<attempts, count.temps + 1>>)
              /\ tempDirs' = tempDirs \cup {TempDir(<<attempts, count.temps + 1>>)}
              /\ count' = [count EXCEPT !.temps = @ + 1]
              /\ pc' = "targetsImportTry"
              /\ UNCHANGED <<props, threw>>
         ELSE /\ threw' = QueryFailed.threw
              /\ props' = QueryFailed.value
              /\ pc' = IF QueryFailed.threw THEN "done" ELSE "useProperties"
              /\ UNCHANGED <<tempDir, tempDirs, count>>
    /\ UNCHANGED <<world, files, attempts, entry, caller, profileName, details, tool,
                   importResult, resolved, ret, lastCheck, debugging, build, buildResult,
                   errors>>

\* The try block of the import: it writes the targets file, runs dotnet
\* msbuild with it and parses the output.
TargetsImportTry ==
    /\ pc = "targetsImportTry"
    /\ \E writeOk \in BOOLEAN, outcome \in ToolOutcomes :
         /\ importResult' = Some(targetsImportTry(writeOk, outcome))
         /\ count' = [count EXCEPT !.queries = IF writeOk THEN @ + 1 ELSE @]
    /\ pc' = "targetsImportFinally"
    /\ UNCHANGED <<world, files, tempDirs, attempts, entry, caller, profileName, details, tool,
                   props, tempDir, resolved, ret, lastCheck, debugging, build, buildResult,
                   errors, threw>>

\* The finally clause of the import removes the directory; the import's
\* result is what tryGetProjectProperties returns.
TargetsImportFinally ==
    /\ pc = "targetsImportFinally"
    /\ \E removed \in BOOLEAN : tempDirs' = RemoveTempDir(tempDirs, tempDir, removed)
    /\ tempDir' = None
    /\ props' = The(importResult).value
    /\ pc' = "useProperties"
    /\ UNCHANGED <<world, files, attempts, entry, caller, profileName, details, tool,
                   importResult, resolved, ret, lastCheck, debugging, build, buildResult,
                   count, errors, threw>>

\* CsprojService.resolveTargetBinaryPath after the query: with properties it
\* returns the reported or the computed path, without it goes on to search.
UseMsbuildProperties ==
    /\ pc = "useProperties"
    /\ IF props # None
       THEN /\ resolved' = Some(resolveFromProperties(The(props)))
            /\ pc' = ret
       ELSE /\ pc' = "findFallback"
            /\ UNCHANGED resolved
    /\ UNCHANGED <<world, files, tempDirs, attempts, entry, caller, profileName, details, tool,
                   props, tempDir, importResult, ret, lastCheck, debugging, build,
                   buildResult, count, errors, threw>>

\* CsprojService.resolveTargetBinaryPath ends with the fallback search and
\* the guessed path.
FindFallbackOutputDll ==
    /\ pc = "findFallback"
    /\ \E found \in findFallbackOutputDll(CsprojPath, files) :
         resolved' = Some(resolveFromFallback(found))
    /\ count' = [count EXCEPT !.searches = @ + 1]
    /\ pc' = ret
    /\ UNCHANGED <<world, files, tempDirs, attempts, entry, caller, profileName, details, tool,
                   props, tempDir, importResult, ret, lastCheck, debugging, build,
                   buildResult, errors, threw>>

\* DotnetStartDebugService.resolveTargetBinaryPath starts with the fallback
\* search and returns what it finds.
LegacyFindFallback ==
    /\ pc = "resolveTargetBinaryPath"
    /\ rev = "DotnetStartDebugService"
    /\ \E outcome \in ToolOutcomes : tool' = Some(outcome)
    /\ count' = [count EXCEPT !.resolves = @ + 1, !.searches = @ + 1]
    /\ props' = None
    /\ \E found \in findFallbackOutputDll(CsprojPath, files) :
         IF found # None
         THEN /\ resolved' = Some(Resolved(The(found), "fallback-search"))
              /\ pc' = ret
         ELSE /\ resolved' = None
              /\ pc' = "legacyQuery"
    /\ UNCHANGED <<world, files, tempDirs, attempts, entry, caller, profileName, details,
                   tempDir, importResult, ret, lastCheck, debugging, build, buildResult,
                   errors, threw>>

\* DotnetStartDebugService.resolveTargetBinaryPath after an empty search:
\* the property query, then the path of the project file as the last resort.
LegacyQuery ==
    /\ pc = "legacyQuery"
    /\ props' = tryGetMsbuildProjectProperties(The(tool))
    /\ resolved' = Some(legacyResolveFromProperties(tryGetMsbuildProjectProperties(The(tool))))
    /\ count' = [count EXCEPT !.queries = @ + 1]
    /\ pc' = ret
    /\ UNCHANGED <<world, files, tempDirs, attempts, entry, caller, profileName, details, tool,
                   tempDir, importResult, ret, lastCheck, debugging, build, buildResult,
                   errors, threw>>

\* The existence check of the builder on the resolved path, and what follows
\* it: the configuration when the file exists; otherwise an error in
\* CsprojService, and a build with one more resolution in
\* DotnetStartDebugService.
CheckFileExists ==
    /\ pc = "checkExists"
    /\ LET path == The(resolved).binaryPath
           exists == fileExists(path, files)
       IN /\ lastCheck' = Some([path |-> path, exists |-> exists])
          /\ count' = [count EXCEPT !.firstMissing = ~exists]
          /\ IF exists
             THEN /\ config' = Some(coreclrConfiguration(ConfigurationName, path, The(details)))
                  /\ pc' = "configurationReturned"
                  /\ UNCHANGED errors
             ELSE IF rev = "CsprojService"
             THEN /\ errors' = errors \cup {"Build output was not found"}
                  /\ config' = None
                  /\ pc' = "configurationReturned"
             ELSE /\ pc' = "tryDotnetBuild"
                  /\ UNCHANGED <<errors, config>>
    /\ UNCHANGED <<world, files, tempDirs, attempts, entry, caller, profileName, details, tool,
                   props, tempDir, importResult, resolved, ret, handed, final, build,
                   buildResult, threw>>

\* DotnetStartDebugService.tryDotnetBuild and the builder's reaction: a failed
\* build ends the call, a successful one is followed by the second resolution.
LegacyTryDotnetBuild ==
    /\ pc = "tryDotnetBuild"
    /\ count' = [count EXCEPT !.builds = @ + 1]
    /\ \E ok \in BOOLEAN :
         IF ok
         THEN /\ \E output \in BuildOutputs : files' = files \cup output
              /\ ret' = "checkExistsAfterBuild"
              /\ pc' = "resolveTargetBinaryPath"
              /\ UNCHANGED <<errors, config>>
         ELSE /\ errors' = errors \cup {"dotnet build failed"}
              /\ config' = None
              /\ pc' = "configurationReturned"
              /\ UNCHANGED <<files, ret>>
    /\ UNCHANGED <<world, tempDirs, attempts, entry, caller, profileName, details, tool, props,
                   tempDir, importResult, resolved, lastCheck, handed, final, build,
                   buildResult, threw>>

\* The existence check of DotnetStartDebugService after its build.
CheckFileExistsAfterBuild ==
    /\ pc = "checkExistsAfterBuild"
    /\ LET path == The(resolved).binaryPath
           exists == fileExists(path, files)
       IN /\ lastCheck' = Some([path |-> path, exists |-> exists])
          /\ IF exists
             THEN /\ config' = Some(coreclrConfiguration(ConfigurationName, path, The(details)))
                  /\ UNCHANGED errors
             ELSE /\ errors' = errors \cup {"Build succeeded but output was not found"}
                  /\ config' = None
    /\ pc' = "configurationReturned"
    /\ UNCHANGED <<world, files, tempDirs, attempts, entry, caller, profileName, details, tool,
                   props, tempDir, importResult, resolved, ret, handed, final, build,
                   buildResult, count, threw>>

\* buildCoreclrDotnetStartConfiguration of DotnetStartDebugService returns.
BuildConfigurationReturned ==
    /\ pc = "configurationReturned"
    /\ entry = "buildCoreclrDotnetStartConfiguration"
    /\ pc' = "done"
    /\ UNCHANGED <<world, files, tempDirs, attempts, entry, caller, profileName, details,
                   resolution, debugging, build, buildResult, count, errors, threw>>

--------------------------------------------------------------------------
\* Debugging (unnamed/part_001)

\* initiateVscodeDebugger after createVscodeDebugConfiguration: without a
\* configuration it returns, with one it calls vscode.debug.startDebugging.
StartDebugging ==
    /\ pc = "configurationReturned"
    /\ entry = "dotnetStart.start"
    /\ caller = "command"
    /\ LET debugConfig == createVscodeDebugConfiguration(config)
       IN IF debugConfig = None
          THEN /\ pc' = "done"
               /\ UNCHANGED <<handed, count>>
          ELSE /\ handed' = debugConfig
               /\ count' = [count EXCEPT !.startDebugging = @ + 1]
               /\ pc' = "resolveDebugConfiguration"
    /\ UNCHANGED <<world, files, tempDirs, attempts, entry, caller, profileName, details,
                   resolution, config, final, build, buildResult, errors, threw>>

\* The host calls the provider's resolveDebugConfiguration on what it was
\* handed: a configuration of another name or one already resolved is
\* returned as it is, any other is resolved again, build included.
ResolveDebugConfiguration ==
    /\ pc = "resolveDebugConfiguration"
    /\ IF The(handed).name # ConfigurationName \/ alreadyResolved(The(handed))
       THEN /\ final' = handed
            /\ pc' = "launch"
            /\ UNCHANGED <<caller, build, buildResult>>
       ELSE /\ caller' = "provider"
            /\ build' = IdleBuild
            /\ buildResult' = None
            /\ pc' = "runDotnetBuild"
            /\ UNCHANGED final
    /\ UNCHANGED <<world, files, tempDirs, attempts, entry, profileName, details, resolution,
                   config, handed, count, errors, threw>>

\* resolveVscodeDebugConfiguration returns inside the provider: the host gets
\* the new configuration, or undefined, which ends the launch.
ProviderReturned ==
    /\ pc = "configurationReturned"
    /\ entry \in ExtensionEntries
    /\ caller = "provider"
    /\ final' = createVscodeDebugConfiguration(config)
    /\ IF config = None
       THEN /\ errors' = errors \cup {"Failed to start debugging"}
            /\ pc' = "done"
       ELSE /\ pc' = "launch"
            /\ UNCHANGED errors
    /\ UNCHANGED <<world, files, tempDirs, attempts, entry, caller, profileName, details,
                   resolution, config, handed, build, buildResult, count, threw>>

\* The host starts the debug session, or fails to; startDebugging returns and
\* initiateVscodeDebugger reports a failure.
Launch ==
    /\ pc = "launch"
    /\ \E ok \in BOOLEAN :
         IF ok
         THEN /\ count' = [count EXCEPT !.launches = @ + 1]
              /\ UNCHANGED errors
         ELSE /\ errors' = errors \cup {"Failed to start debugging"}
              /\ UNCHANGED count
    /\ pc' = "done"
    /\ UNCHANGED <<world, files, tempDirs, attempts, entry, caller, profileName, details,
                   resolution, debugging, build, buildResult, threw>>

--------------------------------------------------------------------------
\* The specification

Next ==
    \/ StartDotnetDebugging
    \/ HostStartsDebugging
    \/ CallRunDotnetBuild
    \/ CallBuildConfiguration
    \/ RunDotnetBuild
    \/ BuildTimeout
    \/ BuildCancelled
    \/ ChildExit
    \/ ChildClose
    \/ ChildError
    \/ RunDotnetBuildReturned
    \/ BuildDotnetProject
    \/ ValidateLaunchProfile
    \/ QueryProperties
    \/ TargetsImportMkdtemp
    \/ TargetsImportTry
    \/ TargetsImportFinally
    \/ UseMsbuildProperties
    \/ FindFallbackOutputDll
    \/ LegacyFindFallback
    \/ LegacyQuery
    \/ CheckFileExists
    \/ LegacyTryDotnetBuild
    \/ CheckFileExistsAfterBuild
    \/ BuildConfigurationReturned
    \/ StartDebugging
    \/ ResolveDebugConfiguration
    \/ ProviderReturned
    \/ Launch

Spec == Init /\ [][Next]_vars

--------------------------------------------------------------------------
\* Properties of target resolution

\* resolveTargetBinaryPath has returned to the builder, which is about to
\* check the path.
ResolveReturned == pc \in {"checkExists", "checkExistsAfterBuild"} /\ resolved # None

\* What the property query of the running revision makes of the tool's
\* answer in this resolution.
QueriedProperties ==
    IF tool = None THEN None
    ELSE IF rev = "CsprojService" THEN tryGetProjectProperties(The(tool)).value
    ELSE tryGetMsbuildProjectProperties(The(tool))

\* The query yields a non-blank TargetPath.
QueryYieldsTargetPath ==
    /\ QueriedProperties # None
    /\ NonBlank(Prop(The(QueriedProperties), "TargetPath")) # None

\* The files the fallback search can return from the disk as it is.
SearchFinds == findFallbackOutputDll(CsprojPath, files) \ {None}

\* C1: whenever the property query yields a non-blank TargetPath, the result
\* of resolveTargetBinaryPath carries the tool provenance 'msbuild', also
\* when the fallback search would find a DLL on disk.
C1_ToolReportedPathTakesPrecedence ==
    (ResolveReturned /\ QueryYieldsTargetPath) => The(resolved).source = "msbuild"

\* The query of this resolution failed: the subprocess failed or timed out,
\* or its output could not be parsed.
FirstQueryFailed ==
    /\ tool # None
    /\ \/ The(tool).kind # "ok"
       \/ parseMsbuildProperties(The(tool).output).threw

C3_FailedQueryFallsBackToSearch ==
    (rev = "CsprojService" /\ ResolveReturned /\ FirstQueryFailed) =>
        /\ The(resolved).source = "fallback-search"
        /\ count.searches = count.resolves
        /\ The(resolved).binaryPath \in {The(f) : f \in SearchFinds} \cup {UriFile(guessedPath)}
        /\ ~threw
        /\ errors \subseteq {"dotnet build failed"}

\* The output of the tool could not be parsed and the search found the DLL.
C3_Witness ==
    /\ rev = "CsprojService"
    /\ ResolveReturned
    /\ The(tool).kind = "ok"
    /\ FirstQueryFailed
    /\ The(resolved) = Resolved(BuiltDll, "fallback-search")

--------------------------------------------------------------------------
\* Properties of the builder

\* buildCoreclrDotnetStartConfiguration has returned.
BuilderReturned == pc = "configurationReturned"

\* The file is on disk now.
OnDisk(p) == Normalize(p) \in files \cup {CsprojPath}

NotFoundErrors ==
    {"Build output was not found", "Build succeeded but output was not found"}

\* C4: the builder returns a configuration only for a path its own last
\* existence check found on disk; when that check found nothing it returns
\* undefined and an error was shown.
C4_DescriptorOnlyForExistingBinary ==
    BuilderReturned =>
        /\ config # None =>
             /\ lastCheck # None
             /\ The(lastCheck).exists
             /\ The(lastCheck).path = The(config).args[1]
             /\ The(lastCheck).path = The(resolved).binaryPath
             /\ OnDisk(The(config).args[1])
        /\ (lastCheck # None /\ ~The(lastCheck).exists) =>
             /\ config = None
             /\ errors \cap (NotFoundErrors \cup {"dotnet build failed"}) # {}
             /\ rev = "CsprojService" => "Build output was not found" \in errors

\* A configuration is returned for the path the tool reported.
C4_Witness ==
    /\ BuilderReturned
    /\ rev = "CsprojService"
    /\ config # None
    /\ The(resolved) = Resolved(CustomDll, "msbuild")
    /\ The(config).args[1] = CustomDll

ValidationErrors ==
    {"No launchSettings.json found", "Failed to read launch profile",
     "Launch profile was not found", "Only Project is supported"}

\* C5: a first resolution whose path is missing is followed by one build and
\* exactly one more resolution; a call runs at most one build and two
\* resolutions, and a path still missing after the retry ends it in failure.
C5_BuildAndRetryOnce ==
    /\ count.builds <= 1
    /\ count.resolves <= 2
    /\ (BuilderReturned /\ count.firstMissing) =>
         /\ count.builds = 1
         /\ count.resolves = 2 \/ "dotnet build failed" \in errors
         /\ ~The(lastCheck).exists => config = None

\* C6: a call that fails the validation of the launch profile has run no
\* property query and no fallback search and has started no dotnet build.
C6_ValidationPrecedesResolution ==
    (BuilderReturned /\ errors \cap ValidationErrors # {}) =>
        /\ count.resolves = 0
        /\ count.queries = 0
        /\ count.searches = 0
        /\ count.builds = 0

\* C7: ASPNETCORE_URLS of the profile's environment reaches the
\* configuration as it is, whatever its value; without that key the
\* configuration has the variable only when applicationUrl is declared, and
\* then with its value.
C7_ExplicitAspnetcoreUrlsWins ==
    (BuilderReturned /\ config # None) =>
        LET declared == The(details).environmentVariables
            env == The(config).env
        IN /\ "ASPNETCORE_URLS" \in DOMAIN declared =>
                /\ "ASPNETCORE_URLS" \in DOMAIN env
                /\ env["ASPNETCORE_URLS"] = declared["ASPNETCORE_URLS"]
           /\ ("ASPNETCORE_URLS" \notin DOMAIN declared /\ "ASPNETCORE_URLS" \in DOMAIN env) =>
                /\ The(details).applicationUrl # None
                /\ env["ASPNETCORE_URLS"] = The(The(details).applicationUrl)

--------------------------------------------------------------------------
\* Properties of the debug launch, the temporary directory and the build

ImportRunning == pc \in {"targetsImportTry", "targetsImportFinally"}

\* The temporary directories on disk no removal has failed on.
Unattempted == {d.id : d \in {e \in tempDirs : ~e.rmFailed}}

\* C9 as stated: outside a running import no temporary directory of a
\* resolution exists, whatever way the imports before took.
C9_NoTempDirectoryRemains == ~ImportRunning => tempDirs = {}

\* C9: every exit path of the import runs the removal of its directory: a
\* directory that exists outside a running import is one whose removal
\* failed, and a running import has only its own still to remove.
C9_RemovalAttemptedOnEveryExit ==
    /\ ~ImportRunning => tempDir = None /\ Unattempted = {}
    /\ ImportRunning => tempDir # None /\ Unattempted = tempDir

\* An import that ended with an exception has left nothing behind.
C9_Witness ==
    /\ pc = "useProperties"
    /\ count.temps = 1
    /\ importResult # None
    /\ The(importResult).threw
    /\ tempDirs = {}

\* C10: a call of runDotnetBuild whose timeout has fired is not left
\* pending: the event that settles its promise can still come, also after a
\* cancellation and with a child that does not exit when killed.
C10_BuildSettlesAfterTimeout ==
    (pc = "awaitClose" /\ build.killedByTimeout) =>
        ENABLED (ChildExit \/ ChildClose \/ ChildError)


--------------------------------------------------------------------------
\* Calls of the pure helpers: the parsers of the tool's output, the argument
\* tokenizer and the computation of the expected target path

\* The largest number of properties in an output
MaxProperties == 3

\* Everything but the helper call is at rest.
AtRest ==
    /\ rev = "CsprojService"
    /\ files = {}
    /\ launchFile = [at |-> "Properties", content |-> "profiles"]
    /\ tempDirs = {}
    /\ pc = "idle"
    /\ attempts = 0
    /\ entry = "none"
    /\ caller = "command"
    /\ profileName = "Web"
    /\ details = None
    /\ tool = None
    /\ props = None
    /\ tempDir = None
    /\ importResult = None
    /\ resolved = None
    /\ ret = "checkExists"
    /\ lastCheck = None
    /\ config = None
    /\ handed = None
    /\ final = None
    /\ build = IdleBuild
    /\ buildResult = None
    /\ count = ZeroCount
    /\ errors = {}
    /\ threw = FALSE

process == <<files, tempDirs, pc, attempts, entry, caller, profileName, details, resolution,
             debugging, build, buildResult, count, errors, threw>>

Call(op, input) == [op |-> op, input |-> input, done |-> FALSE, output |-> <<>>]

\* The values a property may be printed with; the empty one is a property
\* that is not set.
PrintedEntries ==
    { Entry("TargetFramework", <<"net8.0">>), Entry("TargetFramework", <<>>),
      Entry("TargetFrameworks", <<"net8.0", ";", "net9.0">>),
      Entry("OutputPath", <<"bin", "/", "Debug", "/">>), Entry("OutputPath", <<>>),
      Entry("AssemblyName", <<"App">>) }

\* The outputs of at most MaxProperties properties, each printed once, in
\* any order
RECURSIVE AssignmentsOfLength(_)
AssignmentsOfLength(n) ==
    IF n = 0 THEN {<<>>}
    ELSE {Append(a, e) : a \in AssignmentsOfLength(n - 1),
                         e \in PrintedEntries}

DistinctNames(a) == \A i, j \in 1..Len(a) : i # j => a[i].name # a[j].name

Assignments ==
    {a \in UNION {AssignmentsOfLength(n) : n \in 0..MaxProperties} : DistinctNames(a)}

\* The code a call of parseMsbuildProperties runs
Parsers == {"CsprojService", "part_004", "DotnetStartDebugService"}

\* dotnet msbuild -getProperty prints several properties as a JSON document
JsonDocument(a) == Document("json", a)

\* the same properties as "Name = value" lines
LinesDocument(a) == IF Len(a) = 0 THEN Document("blank", <<>>) ELSE Document("lines", a)

ParseWith(parser, output) ==
    CASE parser = "CsprojService" -> csprojParseMsbuildProperties(output, PropertyNameSet)
      [] parser = "part_004" -> parseMsbuildPropertiesJsonOrLines(output, PropertyNameSet)
      [] OTHER -> legacyParseMsbuildProperties(output, PropertyNameSet)

ParseCalls ==
    {Call("parseMsbuildProperties", [assignment |-> a, parser |-> p]) :
        a \in Assignments, p \in Parsers}

\* parseMsbuildProperties is applied to both renderings of the assignment.
ApplyParseMsbuildProperties ==
    /\ fn.op = "parseMsbuildProperties"
    /\ ~fn.done
    /\ fn' = [fn EXCEPT !.done = TRUE,
                        !.output = [fromJson |-> ParseWith(fn.input.parser,
                                                           JsonDocument(fn.input.assignment)),
                                    fromLines |-> ParseWith(fn.input.parser,
                                                            LinesDocument(fn.input.assignment))]]
    /\ UNCHANGED <<rev, launchFile, selection, process>>

\* The longest argument string
MaxArgLength == 4

\* The characters of an argument string: a letter, whitespace, the quotes
\* and the backslash
ArgChars == {"a", " ", "\t", "\"", "'", "\\"}

RECURSIVE TextsOfLength(_)
TextsOfLength(n) ==
    IF n = 0 THEN {<<>>}
    ELSE {Append(t, c) : t \in TextsOfLength(n - 1), c \in ArgChars}

ArgTexts == UNION {TextsOfLength(n) : n \in 0..MaxArgLength}

TokenizeCalls == {Call("parseCommandLineArgs", t) : t \in ArgTexts}

\* parseCommandLineArgs is applied to the text, and again to its tokens
\* joined with single spaces.
ApplyParseCommandLineArgs ==
    /\ fn.op = "parseCommandLineArgs"
    /\ ~fn.done
    /\ LET first == parseCommandLineArgs(Some(fn.input))
       IN fn' = [fn EXCEPT !.done = TRUE,
                           !.output = [first |-> first,
                                       second |-> parseCommandLineArgs(
                                                      Some(JoinWith(first, " ")))]]
    /\ UNCHANGED <<rev, launchFile, selection, process>>

\* The values each property may have among the properties handed to
\* computeExpectedTargetPath; none when the property is not given. The
\* parsers keep no blank value.
PropertyChoices(name) ==
    CASE name = "TargetFramework" -> {None, Some(<<"net8.0">>), Some(<<"NET8.0">>)}
      [] name = "TargetFrameworks" ->
           {None, Some(<<"net8.0", ";", "net9.0">>), Some(<<";", " ", "net9.0">>)}
      [] name = "OutputPath" ->
           {None, Some(<<"bin", "/", "Debug", "/">>),
            Some(<<"bin", "/", "Debug", "/", "net8.0", "/">>), Some(<<"/", "out", "/">>)}
      [] name = "AssemblyName" -> {None, Some(<<"App">>)}
      [] name = "TargetExt" -> {None, Some(<<".dll">>), Some(<<".exe">>)}
      [] name = "TargetFileName" -> {None, Some(<<"Lib", ".dll">>)}
      [] name = "AppendTargetFrameworkToOutputPath" ->
           {None, Some(<<"true">>), Some(<<"True">>), Some(<<"false">>), Some(<<"FALSE">>),
            Some(<<"yes">>)}
      [] OTHER -> {None}

\* The record of the properties that are given
PropsOf(choice) ==
    [n \in {m \in DOMAIN choice : choice[m] # None} |-> The(choice[n])]

PropsSamples ==
    {PropsOf([TargetFramework |-> tf, TargetFrameworks |-> tfs, OutputPath |-> op,
              AssemblyName |-> an, TargetExt |-> te, TargetFileName |-> tfn,
              AppendTargetFrameworkToOutputPath |-> flag]) :
        tf \in PropertyChoices("TargetFramework"),
        tfs \in PropertyChoices("TargetFrameworks"),
        op \in PropertyChoices("OutputPath"),
        an \in PropertyChoices("AssemblyName"),
        te \in PropertyChoices("TargetExt"),
        tfn \in PropertyChoices("TargetFileName"),
        flag \in PropertyChoices("AppendTargetFrameworkToOutputPath")}

ComputeCalls == {Call("computeExpectedTargetPath", props_) : props_ \in PropsSamples}

\* computeExpectedTargetPathFromMsbuildProperties(csproj, 'Debug', props)
ApplyComputeExpectedTargetPath ==
    /\ fn.op = "computeExpectedTargetPath"
    /\ ~fn.done
    /\ fn' = [fn EXCEPT !.done = TRUE,
                        !.output = computeExpectedTargetPath(CsprojPath, "Debug", fn.input)]
    /\ UNCHANGED <<rev, launchFile, selection, process>>

\* the properties as header lines, each followed by the line of its value
HeadedDocument(a) == Document("headed", a)

HeadedCalls == {Call("parseMsbuildGetPropertyOutput", a) : a \in Assignments}

\* The parser of unnamed/part_004 is applied to the header lines.
ApplyParseHeadedOutput ==
    /\ fn.op = "parseMsbuildGetPropertyOutput"
    /\ ~fn.done
    /\ fn' = [fn EXCEPT !.done = TRUE,
                        !.output = parseMsbuildPropertiesJsonOrLines(HeadedDocument(fn.input),
                                                                     PropertyNameSet).value]
    /\ UNCHANGED <<rev, launchFile, selection, process>>

\* tryGetProjectProperties of unnamed/part_006: undefined when the subprocess
\* fails, the map of the properties found in its output otherwise, which may
\* be empty.
tryGetProjectPropertiesFromLines(outcome) == tryGetMsbuildProjectProperties(outcome)

ResolveCalls ==
    {Call("resolveTargetBinaryPath", [tool |-> o, files |-> f]) :
        o \in ToolOutcomes, f \in InitialDisks}

\* resolveTargetBinaryPath is applied to the answer of the tool and the disk.
ApplyResolveTargetBinaryPath ==
    /\ fn.op = "resolveTargetBinaryPath"
    /\ ~fn.done
    /\ \E found \in findFallbackOutputDll(CsprojPath, fn.input.files),
          queried \in {tryGetProjectPropertiesFromLines(fn.input.tool)} :
         \E returned \in {resolveTargetBinaryPath(queried, found)} :
           fn' = [fn EXCEPT !.done = TRUE,
                            !.output = [props |-> queried, searched |-> returned.searched,
                                        result |-> returned.result]]
    /\ UNCHANGED <<rev, launchFile, selection, process>>

\* The most events a quick pick fires in the model
MaxEvents == 3

\* The items of the picker of the start action
StartActions == {"run-selected", "run-once-profile"}

\* quickPick.selectedItems or quickPick.activeItems at the time of an event:
\* empty, or with one of the items first
ItemLists == {<<>>} \cup {<<a>> : a \in StartActions}

\* list[0], an optional item
FirstItem(list) == IF Len(list) > 0 THEN Some(list[1]) ELSE None

\* The quick pick and the promise of showPreselectedQuickPick after
\* quickPick.show(): both listeners registered, nothing settled; resolved
\* holds the values resolve was called with, fired the events so far.
ShownQuickPick(activeItem) ==
    [ settled |-> FALSE, acceptListening |-> TRUE, hideListening |-> TRUE, disposed |-> FALSE,
      selectedItems |-> <<>>, activeItems |-> <<activeItem>>, resolved |-> <<>>,
      fired |-> <<>> ]

\* finish without its guard and without the disposal of the listeners: every
\* event calls resolve.
finishEveryTime(q, value) == [q EXCEPT !.resolved = Append(@, value)]

\* finish(value) of showPreselectedQuickPick
finish(q, value) ==
    IF q.settled THEN q
    ELSE [q EXCEPT !.settled = TRUE, !.acceptListening = FALSE, !.hideListening = FALSE,
                   !.resolved = Append(@, value), !.disposed = TRUE]

\* The quick pick fires an event while its items are as given.
Fired(q, event, selected, active) ==
    [q EXCEPT !.selectedItems = selected, !.activeItems = active,
              !.fired = Append(@, [event |-> event, selectedItems |-> selected,
                                   activeItems |-> active])]

QuickPickCalls == {Call("showPreselectedQuickPick", [activeItem |-> a]) : a \in StartActions}

\* showPreselectedQuickPick up to quickPick.show()
ShowPreselectedQuickPick ==
    /\ fn.op = "showPreselectedQuickPick"
    /\ fn.output = <<>>
    /\ fn' = [fn EXCEPT !.output = ShownQuickPick(fn.input.activeItem)]
    /\ UNCHANGED <<rev, launchFile, selection, process>>

\* The quick pick fires onDidAccept; the listener, unless disposed, calls
\* finish(quickPick.selectedItems[0] ?? quickPick.activeItems[0]).
OnDidAccept ==
    /\ fn.op = "showPreselectedQuickPick"
    /\ fn.output # <<>>
    /\ Len(fn.output.fired) < MaxEvents
    /\ \E selected \in ItemLists, active \in ItemLists :
         LET q == Fired(fn.output, "accept", selected, active)
             after == IF q.acceptListening
                      THEN finish(q, Coalesce(FirstItem(q.selectedItems),
                                              FirstItem(q.activeItems)))
                      ELSE q
         IN fn' = [fn EXCEPT !.output = after, !.done = after.resolved # <<>>]
    /\ UNCHANGED <<rev, launchFile, selection, process>>

\* The quick pick fires onDidHide; the listener, unless disposed, calls
\* finish(undefined).
OnDidHide ==
    /\ fn.op = "showPreselectedQuickPick"
    /\ fn.output # <<>>
    /\ Len(fn.output.fired) < MaxEvents
    /\ LET q == Fired(fn.output, "hide", fn.output.selectedItems, fn.output.activeItems)
           after == IF q.hideListening THEN finish(q, None) ELSE q
       IN fn' = [fn EXCEPT !.output = after, !.done = after.resolved # <<>>]
    /\ UNCHANGED <<rev, launchFile, selection, process>>

FunctionCalls ==
    ParseCalls \cup TokenizeCalls \cup ComputeCalls \cup HeadedCalls \cup ResolveCalls
        \cup QuickPickCalls

FunctionsInit == fn \in FunctionCalls /\ AtRest /\ SelectionAtRest

FunctionsNext ==
    \/ ApplyParseMsbuildProperties
    \/ ApplyParseCommandLineArgs
    \/ ApplyComputeExpectedTargetPath
    \/ ApplyParseHeadedOutput
    \/ ApplyResolveTargetBinaryPath
    \/ ShowPreselectedQuickPick
    \/ OnDidAccept
    \/ OnDidHide

Functions == FunctionsInit /\ [][FunctionsNext]_vars

--------------------------------------------------------------------------
\* Claims about the parsers

ParsedLines == fn.op = "parseMsbuildProperties" /\ fn.done

\* The lines of the parsed output that print the property of this name
LinesNamed(name) ==
    {i \in 1..Len(fn.input.assignment) : fn.input.assignment[i].name = name}

\* The lines whose property name is longer than the name and starts with it
LongerNamedLines(name) ==
    {i \in 1..Len(fn.input.assignment) :
        /\ fn.input.assignment[i].name # name
        /\ name \in PrefixesOf(fn.input.assignment[i].name)}

\* C11: parseMsbuildProperties never takes the value of a property P from a
\* line of a longer property name of which P is a prefix: when the output has
\* such a line and no line of P, P is absent from the result, and when it
\* also has a line of P with a value, P has exactly that value.
C11_PropertyNameBoundary ==
    ParsedLines =>
        \A name \in PropertyNameSet :
            LongerNamedLines(name) # {} =>
                /\ LinesNamed(name) = {} =>
                       \/ fn.output.fromLines.threw
                       \/ name \notin DOMAIN fn.output.fromLines.value
                /\ \A i \in LinesNamed(name) :
                       ~IsBlank(fn.input.assignment[i].s) =>
                           /\ ~fn.output.fromLines.threw
                           /\ name \in DOMAIN fn.output.fromLines.value
                           /\ fn.output.fromLines.value[name] = Trim(fn.input.assignment[i].s)


\* C12: parseMsbuildProperties returns the same map whether the tool printed
\* the assignment as a JSON document with a Properties object or as
\* "Name = value" lines.
C12_FormatInvariance ==
    ParsedLines => fn.output.fromJson = fn.output.fromLines


--------------------------------------------------------------------------
\* Claims about the argument tokenizer

Tokenized == fn.op = "parseCommandLineArgs" /\ fn.done

\* No token of the first tokenization holds one of the characters.
TokensWithout(chars) ==
    \A i \in 1..Len(fn.output.first) :
        \A k \in 1..Len(fn.output.first[i]) : fn.output.first[i][k] \notin chars

\* C13 as stated: when no token holds whitespace, tokenizing the tokens joined
\* with single spaces yields the same token list as the first tokenization.
C13_IdempotentUnderRejoining ==
    (Tokenized /\ TokensWithout(Whitespace)) => fn.output.second = fn.output.first

\* C13 amended: when no token holds whitespace, a quote or a backslash,
\* tokenizing the tokens joined with single spaces yields the same token list
\* as the first tokenization.
C13_IdempotentForPlainTokens ==
    (Tokenized /\ TokensWithout(Whitespace \cup Quotes \cup {"\\"})) =>
        fn.output.second = fn.output.first

\* A quoted text of several plain tokens has been tokenized twice.
C13_Witness ==
    /\ Tokenized
    /\ TokensWithout(Whitespace \cup Quotes \cup {"\\"})
    /\ Len(fn.output.first) >= 2
    /\ \E k \in 1..Len(fn.input) : fn.input[k] \in Quotes
    /\ fn.output.second = fn.output.first


--------------------------------------------------------------------------
\* Claims about the computation of the expected target path

Computed == fn.op = "computeExpectedTargetPath" /\ fn.done

Given(name) == name \in DOMAIN fn.input

\* The first entry of a semicolon list that is not blank, optional
FirstEntry(list) ==
    LET pieces == Split(list, ";")
        filled == {i \in 1..Len(pieces) : ~IsBlank(pieces[i])}
    IN IF filled = {} THEN None
       ELSE Some(Trim(pieces[CHOOSE i \in filled : \A j \in filled : i <= j]))

\* The framework moniker of the given properties, optional
Moniker ==
    IF Given("TargetFramework") THEN Some(fn.input.TargetFramework)
    ELSE IF Given("TargetFrameworks") THEN FirstEntry(fn.input.TargetFrameworks)
    ELSE None

\* The output directory of the given properties
OutputDirectory ==
    IF ~Given("OutputPath") THEN Join(<<ProjectDir, <<"bin">>, <<"Debug">>>>)
    ELSE IF IsAbsolute(fn.input.OutputPath) THEN fn.input.OutputPath
    ELSE Join(<<ProjectDir, fn.input.OutputPath>>)

\* The file name of the given properties
FileName ==
    IF Given("TargetFileName") THEN fn.input.TargetFileName
    ELSE (IF Given("AssemblyName") THEN fn.input.AssemblyName ELSE ProjectName)
         \o (IF Given("TargetExt") THEN fn.input.TargetExt ELSE <<".dll">>)

\* The text with the case of its letters ignored
CaseIgnored(s) == [i \in 1..Len(s) |-> LowerLexeme(s[i])]

\* The directory holds the moniker as one of its segments, case ignored.
HoldsMoniker(dir) ==
    /\ Moniker # None
    /\ \E i \in 1..Len(Segments(dir)) :
           CaseIgnored(Segments(dir)[i]) = CaseIgnored(The(Moniker))

AppendFlagTrue ==
    /\ Given("AppendTargetFrameworkToOutputPath")
    /\ fn.input.AppendTargetFrameworkToOutputPath \in {<<"true">>, <<"True">>}

AppendFlagFalse ==
    /\ Given("AppendTargetFrameworkToOutputPath")
    /\ fn.input.AppendTargetFrameworkToOutputPath \in {<<"false">>, <<"FALSE">>}

\* The properties of the example: net8.0, bin/Debug/, App, .dll, true
ExampleProps ==
    [TargetFramework |-> <<"net8.0">>, OutputPath |-> <<"bin", "/", "Debug", "/">>,
     AssemblyName |-> <<"App">>, TargetExt |-> <<".dll">>,
     AppendTargetFrameworkToOutputPath |-> <<"true">>]

\* C14: with a relative OutputPath, a known moniker, the append flag true,
\* the moniker not yet in the path, and the file name left to AssemblyName
\* and TargetExt, the result is
\* <projectDir>/<OutputPath>/<moniker>/<AssemblyName><TargetExt>; for the
\* project directory /repo/App and the example properties it is
\* /repo/App/bin/Debug/net8.0/App.dll.
C14_TargetPathMirrorsLayout ==
    /\ ( /\ Computed
         /\ Given("OutputPath") /\ ~IsAbsolute(fn.input.OutputPath)
         /\ Moniker # None
         /\ AppendFlagTrue
         /\ ~HoldsMoniker(OutputDirectory)
         /\ Given("AssemblyName") /\ Given("TargetExt") /\ ~Given("TargetFileName") )
       => fn.output = Join(<<ProjectDir, fn.input.OutputPath, The(Moniker),
                             fn.input.AssemblyName \o fn.input.TargetExt>>)
    /\ (Computed /\ fn.input = ExampleProps) => fn.output = BuiltDll

C14_Witness == Computed /\ fn.input = ExampleProps /\ fn.output = BuiltDll

\* C15: when the output directory already holds the moniker as a path
\* segment, case ignored, the moniker is not appended again: the result is the
\* output directory joined with the file name.
C15_MonikerNotAppendedTwice ==
    (Computed /\ HoldsMoniker(OutputDirectory)) =>
        fn.output = Join(<<OutputDirectory, FileName>>)

\* The output path ends in net8.0 and the moniker is NET8.0.
C15_Witness ==
    /\ Computed
    /\ HoldsMoniker(OutputDirectory)
    /\ Given("TargetFramework") /\ fn.input.TargetFramework = <<"NET8.0">>
    /\ ~AppendFlagFalse
    /\ fn.output = BuiltDll

\* C16: the moniker is TargetFramework when it is given, the first non-empty
\* entry of TargetFrameworks otherwise, and none otherwise: unless the append
\* flag is false or the output directory holds the moniker already, the
\* result lies in the folder of that moniker below the output directory, and
\* with no moniker it lies in the output directory itself.
C16_MonikerPreference ==
    (Computed /\ ~AppendFlagFalse /\ ~HoldsMoniker(OutputDirectory)) =>
        fn.output = IF Moniker = None THEN Join(<<OutputDirectory, FileName>>)
                    ELSE Join(<<OutputDirectory, The(Moniker), FileName>>)

\* Only TargetFrameworks is given: the folder is that of its first entry.
C16_Witness ==
    /\ Computed
    /\ ~Given("TargetFramework")
    /\ Given("TargetFrameworks") /\ fn.input.TargetFrameworks = <<"net8.0", ";", "net9.0">>
    /\ ~Given("OutputPath") /\ ~Given("TargetFileName") /\ ~AppendFlagFalse
    /\ Basename(Dirname(fn.output)) = <<"net8.0">>


--------------------------------------------------------------------------
\* The commands that read and write the saved selection

\* The launch settings of the first project
AppSettings ==
    { LaunchSettings("missing", <<>>), LaunchSettings("ok", <<"Only">>),
      LaunchSettings("ok", <<"Dev", "Prod">>) }

\* The launch settings of the second project
App2Settings == {LaunchSettings("ok", <<"Dev">>), LaunchSettings("ok", <<"Dev", "Prod">>)}

Workspaces ==
    {[platform |-> pl, csprojs |-> found, launch |-> [App |-> a, App2 |-> b]] :
        pl \in {"linux", "win32"},
        found \in {{}, {CsprojPath, CsprojPathLowerCase, Csproj2Path}},
        a \in AppSettings, b \in App2Settings}

\* What the user does with the project picker: dismiss it or pick a project
ProjectChoices == {None} \cup {Some(p) : p \in {CsprojPath, CsprojPathLowerCase, Csproj2Path}}

\* What the user does with the profile picker: dismiss it or pick a profile
ProfileChoices == {None, Some("Dev"), Some("Prod")}

\* The project the picker returned during the step, optional
PickedBy(step) == IF step.prompts # <<>> THEN step.value ELSE None

\* The command ends: the workspace state and the record of the command.
Finish(name, action, project, profile, started) ==
    /\ saved' = profile.saved
    /\ prev' = ui
    /\ ui' = Command(name, action, saved, project.prompts \o profile.prompts,
                     project.errors \o profile.errors, PickedBy(project), started)

\* A step that is not taken
Skipped(s) == Outcome(s, None, <<>>, <<>>)

\* initiateVscodeDebugger(csprojUri, profileName) is called when both are known.
Started(project, profile) ==
    IF project.value # None /\ profile.value # None
    THEN Some([project |-> The(project.value), profile |-> The(profile.value)])
    ELSE None

\* dotnetStart.selectStartProject
SelectStartProjectCommand ==
    /\ \E choice \in ProjectChoices :
           LET project == selectStartProject(saved, workspace, choice)
           IN Finish("dotnetStart.selectStartProject", "none", project,
                     Skipped(project.saved), None)
    /\ UNCHANGED <<rev, launchFile, fn, workspace, pickers, process>>

\* dotnetStart.selectLaunchProfile
SelectLaunchProfileCommand ==
    /\ \E choice \in ProjectChoices, name \in ProfileChoices :
           LET project == ensureSelectedProject(saved, workspace, choice)
               profile == IF project.value = None THEN Skipped(project.saved)
                          ELSE selectLaunchProfile(project.saved, workspace,
                                                   The(project.value), name)
           IN Finish("dotnetStart.selectLaunchProfile", "none", project, profile, None)
    /\ UNCHANGED <<rev, launchFile, fn, workspace, pickers, process>>

\* dotnetStart.start, the action picker dismissed
StartDismissed ==
    /\ Finish("dotnetStart.start", "dismissed", Skipped(saved), Skipped(saved), None)
    /\ UNCHANGED <<rev, launchFile, fn, workspace, pickers, process>>

\* dotnetStart.start with the action run-selected: startDotnetDebugging
StartSelected ==
    /\ \E choice \in ProjectChoices, name \in ProfileChoices :
           LET project == ensureSelectedProject(saved, workspace, choice)
               profile == IF project.value = None THEN Skipped(project.saved)
                          ELSE ensureSelectedProfile(project.saved, workspace,
                                                     The(project.value), name)
           IN Finish("dotnetStart.start", "run-selected", project, profile,
                     Started(project, profile))
    /\ UNCHANGED <<rev, launchFile, fn, workspace, pickers, process>>

\* dotnetStart.start with the action run-once-profile:
\* startDotnetDebuggingWithOneOffProfile
StartOnce ==
    /\ \E choice \in ProjectChoices, name \in ProfileChoices :
           LET project == ensureSelectedProject(saved, workspace, choice)
               profile == IF project.value = None THEN Skipped(project.saved)
                          ELSE selectLaunchProfileOnce(project.saved, workspace,
                                                       The(project.value), name)
           IN Finish("dotnetStart.start", "run-once-profile", project, profile,
                     Started(project, profile))
    /\ UNCHANGED <<rev, launchFile, fn, workspace, pickers, process>>

\* dotnetStart.clearState
ClearStateCommand ==
    /\ Finish("dotnetStart.clearState", "none", Skipped(saved), Skipped(clearState(saved)), None)
    /\ UNCHANGED <<rev, launchFile, fn, workspace, pickers, process>>

SelectionInit ==
    /\ AtRest
    /\ fn = NoCall
    /\ workspace \in Workspaces
    /\ saved = NothingSaved
    /\ ui = NoCommand
    /\ prev = NoCommand
    /\ pickers = {}

SelectionNext ==
    \/ SelectStartProjectCommand
    \/ SelectLaunchProfileCommand
    \/ StartDismissed
    \/ StartSelected
    \/ StartOnce
    \/ ClearStateCommand

Selection == SelectionInit /\ [][SelectionNext]_vars


--------------------------------------------------------------------------
\* Claims about the saved selection

\* The command was a start with the action run-selected.
StartedSelected(c) == c.command = "dotnetStart.start" /\ c.action = "run-selected"

\* The two paths name the same project on the platform of the workspace.
SameProject(a, b) ==
    IF workspace.platform = "win32" THEN CaseIgnored(a) = CaseIgnored(b) ELSE a = b

\* The project saved in a workspace state, optional
SavedProject(s) == IF s.project = None THEN None ELSE Some(UriParse(The(s.project)))

\* The names of the launch profiles of a project
ProfilesOf(project) ==
    LET names == LaunchSettingsOf(workspace, project).names
    IN {names[i] : i \in 1..Len(names)}

\* The command was selectStartProject and picked a project other than the
\* saved one.
ChangedProject(c) ==
    /\ c.command = "dotnetStart.selectStartProject"
    /\ c.picked # None
    /\ SavedProject(c.before) # None
    /\ ~SameProject(The(c.picked), The(SavedProject(c.before)))

\* The command was selectStartProject and picked the saved project again.
RepickedProject(c) ==
    /\ c.command = "dotnetStart.selectStartProject"
    /\ c.picked # None
    /\ SavedProject(c.before) # None
    /\ SameProject(The(c.picked), The(SavedProject(c.before)))

\* The profile picker was shown during the command.
ProfilePrompted(c) == \E i \in 1..Len(c.prompts) : c.prompts[i] = "profile"

\* C17: after selectStartProject picks a project other than the saved one no
\* launch profile is saved, so the next start takes no saved profile: it
\* shows the profile picker when the new project has several profiles and
\* starts with a profile of the new project; picking the saved project again
\* leaves the saved profile as it was.
C17_ProjectChangeClearsProfile ==
    /\ ChangedProject(ui) =>
           /\ saved.profile = None
           /\ SavedProject(saved) = ui.picked
    /\ RepickedProject(ui) => saved.profile = ui.before.profile
    /\ (ChangedProject(prev) /\ StartedSelected(ui)) =>
           /\ ui.before.profile = None
           /\ Cardinality(ProfilesOf(The(prev.picked))) > 1 => ProfilePrompted(ui)
           /\ ui.started # None =>
                  /\ The(ui.started).project = The(prev.picked)
                  /\ The(ui.started).profile \in ProfilesOf(The(prev.picked))

\* A profile was saved, the project was changed, and the next start asked
\* for a profile and started with another one than the one saved before.
C17_Witness ==
    /\ ChangedProject(prev)
    /\ prev.before.profile # None
    /\ StartedSelected(ui)
    /\ ProfilePrompted(ui)
    /\ ui.started # None
    /\ The(ui.started).profile # The(prev.before.profile)
    /\ saved.profile = Some(The(ui.started).profile)

\* C18: after dotnetStart.clearState neither a project nor a profile is
\* saved, whatever was saved before, and the next start selects both again:
\* it shows the project picker when the workspace has a project, the profile
\* picker when the project picked has several profiles, and starts with the
\* project picked and one of its profiles.
C18_ClearStateClearsBoth ==
    /\ ui.command = "dotnetStart.clearState" => saved = NothingSaved
    /\ ( /\ prev.command = "dotnetStart.clearState"
         /\ ui.command = "dotnetStart.start" /\ ui.action # "dismissed" ) =>
           /\ workspace.csprojs # {} => (ui.prompts # <<>> /\ ui.prompts[1] = "project")
           /\ (ui.picked # None /\ Cardinality(ProfilesOf(The(ui.picked))) > 1) =>
                  ProfilePrompted(ui)
           /\ ui.started # None =>
                  /\ Some(The(ui.started).project) = ui.picked
                  /\ The(ui.started).profile \in ProfilesOf(The(ui.picked))

\* Both were saved, the state was cleared, and the next start asked for both.
C18_Witness ==
    /\ prev.command = "dotnetStart.clearState"
    /\ prev.before.project # None /\ prev.before.profile # None
    /\ StartedSelected(ui)
    /\ ui.prompts = <<"project", "profile">>
    /\ ui.started # None

\* The project a command ran for: the one picked, or the one saved before
ProjectOf(c) == IF c.picked # None THEN c.picked ELSE SavedProject(c.before)

\* The command was a start that had to choose a profile for a project whose
\* launch settings hold exactly one.
ChoseOnlyProfile(c) ==
    /\ StartedSelected(c)
    /\ c.before.profile = None
    /\ ProjectOf(c) # None
    /\ Cardinality(ProfilesOf(The(ProjectOf(c)))) = 1

\* C19: when the launch settings hold exactly one profile, the start that has
\* to choose a profile takes it without showing the profile picker and saves
\* it, and the start that follows shows no picker at all and starts the same.
C19_OnlyProfileIsTakenAndSaved ==
    /\ ChoseOnlyProfile(ui) =>
           /\ ~ProfilePrompted(ui)
           /\ saved.profile # None /\ The(saved.profile) \in ProfilesOf(The(ProjectOf(ui)))
           /\ ui.started = Some([project |-> The(ProjectOf(ui)),
                                 profile |-> The(saved.profile)])
    /\ (ChoseOnlyProfile(prev) /\ StartedSelected(ui)) =>
           /\ ui.prompts = <<>>
           /\ ui.started = prev.started

\* The first start asked for the project only; the second asked for nothing.
C19_Witness ==
    /\ ChoseOnlyProfile(prev)
    /\ prev.prompts = <<"project">>
    /\ StartedSelected(ui)
    /\ ui.prompts = <<>>
    /\ ui.started # None
    /\ The(ui.started).profile = "Only"

\* C20: a start with a one-off profile leaves the saved selection as it was:
\* the saved project and the saved profile after the run are those before it.
C20_RunOnceKeepsSelection ==
    (ui.command = "dotnetStart.start" /\ ui.action = "run-once-profile") => saved = ui.before

--------------------------------------------------------------------------
\* Properties of the builder: the command of the profile and the shape of
\* the configuration

\* The commandName the launch settings declare for the profile of this call,
\* when the file is found and holds the profile: a string, or nothing.
DeclaredCommand ==
    IF /\ getLaunchSettingsUriForProject(launchFile) # None
       /\ launchFile.content = "profiles"
       /\ profileName \in DOMAIN LaunchProfiles
       /\ LaunchProfiles[profileName].object
    THEN StringOrUndefined(LaunchProfiles[profileName].commandName)
    ELSE None

\* C21: for a profile whose declared commandName is not "Project" the builder
\* shows the error that only "Project" is supported and returns undefined:
\* no configuration is made for it.
C21_OtherCommandIsRejected ==
    (BuilderReturned /\ DeclaredCommand # None /\ The(DeclaredCommand) # <<"Project">>) =>
        /\ config = None
        /\ "Only Project is supported" \in errors

\* The arguments the profile of this call declares, tokenized.
RuntimeArgs == parseCommandLineArgs(The(details).commandLineArgs)

--------------------------------------------------------------------------
\* Properties of target resolution: the last resort

\* No tier found anything: the query gave no properties and the searches
\* find no DLL.
NothingFound == ResolveReturned /\ props = None /\ SearchFinds = {}

\* C23: when the query is unusable and the three searches are empty,
\* resolveTargetBinaryPath returns the guessed path
\* <projectDir>/bin/Debug/<projectName>.dll with the provenance
\* 'fallback-search'.
C23_GuessedPathAsLastResort ==
    NothingFound =>
        The(resolved) =
            Resolved(<<"/", "repo", "/", "App", "/", "bin", "/", "Debug", "/", "App", ".dll">>,
                     "fallback-search")

--------------------------------------------------------------------------
\* Properties of the saved selection: later runs

\* Both a start project and a launch profile were saved when the command began.
BothSavedBefore(c) == c.before.project # None /\ c.before.profile # None

\* C24: later runs use the saved selection: a start with the action
\* run-selected that finds both a start project and a launch profile saved
\* shows neither the project picker nor the profile picker, starts with
\* exactly the saved project and the saved profile, and leaves both saved.
C24_LaterRunsUseSavedSelection ==
    (StartedSelected(ui) /\ BothSavedBefore(ui)) =>
        /\ ui.prompts = <<>>
        /\ ui.picked = None
        /\ ui.started = Some([project |-> Tail(The(ui.before.project)),
                              profile |-> The(ui.before.profile)])
        /\ saved = ui.before

\* The first run asked for the project and the profile and saved them; the
\* run after it asked for nothing and started the same.
C24_Witness ==
    /\ StartedSelected(prev)
    /\ prev.before = NothingSaved
    /\ prev.prompts = <<"project", "profile">>
    /\ prev.started # None
    /\ StartedSelected(ui)
    /\ BothSavedBefore(ui)
    /\ ui.prompts = <<>>
    /\ ui.started = prev.started

--------------------------------------------------------------------------
\* Claims about the header lines of the line-oriented output

ParsedHeaders == fn.op = "parseMsbuildGetPropertyOutput" /\ fn.done

\* The header of the i-th property is followed by the line of its value.
ValueFollows(i) == ~IsBlank(fn.input[i].s)

\* The header of the i-th property is followed by the header of the next.
HeaderFollows(i) == IsBlank(fn.input[i].s) /\ i < Len(fn.input)

\* C25: in the line-oriented output a property whose header line carries no
\* value has the next non-blank line as its value; when that line is the
\* header of another property it is not taken and the property is absent.
C25_ValueOnNextLine ==
    ParsedHeaders =>
        \A i \in 1..Len(fn.input) :
            LET name == fn.input[i].name
            IN /\ ValueFollows(i) =>
                     name \in DOMAIN fn.output /\ fn.output[name] = Trim(fn.input[i].s)
               /\ HeaderFollows(i) => name \notin DOMAIN fn.output

\* TargetFramework without a value, followed by the header of OutputPath and
\* its value: OutputPath is read, TargetFramework is absent.
C25_Witness ==
    /\ ParsedHeaders
    /\ fn.input = <<Entry("TargetFramework", <<>>), Entry("OutputPath", <<"bin", "/", "Debug", "/">>)>>
    /\ fn.output = [OutputPath |-> <<"bin", "/", "Debug", "/">>]

--------------------------------------------------------------------------
\* Claims about the append flag

\* The flag AppendTargetFrameworkToOutputPath as given, case ignored; the
\* empty sequence when it is not given
FlagText ==
    IF Given("AppendTargetFrameworkToOutputPath")
    THEN CaseIgnored(fn.input.AppendTargetFrameworkToOutputPath)
    ELSE <<>>

\* The flag is "false"; absent, "true" or no boolean otherwise
FlagSaysFalse == FlagText = <<"false">>

\* The result has the moniker as one more directory below the output directory.
MonikerAppended ==
    Moniker # None /\ fn.output = Join(<<OutputDirectory, The(Moniker), FileName>>)

\* The result lies in the output directory itself.
NothingAppended == fn.output = Join(<<OutputDirectory, FileName>>)

\* C26 as stated: the moniker is appended as one more directory whenever a
\* moniker is known and the flag is absent, "true" or no boolean, and is not
\* appended when the flag is "false" or no moniker is known.
C26_AppendFollowsFlag ==
    Computed =>
        /\ (Moniker # None /\ ~FlagSaysFalse) => MonikerAppended
        /\ (Moniker = None \/ FlagSaysFalse) => NothingAppended

\* C26 amended: the moniker is appended as one more directory when a moniker
\* is known, the flag is absent, "true" or no boolean, and the output
\* directory does not hold the moniker yet; it is not appended when the flag
\* is "false", when no moniker is known or when the output directory holds it.
C26_AppendFollowsFlagUnlessHeld ==
    Computed =>
        /\ (Moniker # None /\ ~FlagSaysFalse /\ ~HoldsMoniker(OutputDirectory)) =>
               MonikerAppended /\ ~NothingAppended
        /\ (Moniker = None \/ FlagSaysFalse \/ HoldsMoniker(OutputDirectory)) =>
               NothingAppended

\* A flag that is no boolean counts as absent: the moniker is appended.
C26_Witness ==
    /\ Computed
    /\ Moniker = Some(<<"net8.0">>)
    /\ ~HoldsMoniker(OutputDirectory)
    /\ FlagText = <<"yes">>
    /\ MonikerAppended
    /\ ~NothingAppended

--------------------------------------------------------------------------
\* Claims about the resolution with properties at hand

ResolvedCall == fn.op = "resolveTargetBinaryPath" /\ fn.done

\* The query returned a map without any of the properties.
NoPropertyFound == fn.output.props # None /\ DOMAIN The(fn.output.props) = {}

\* C27: computeExpectedTargetPath yields a path for every map of properties,
\* so whenever the property query returns a map, also one without TargetPath
\* or without any property, resolveTargetBinaryPath returns a path with the
\* provenance 'msbuild' and does not run the fallback search; the search is
\* run only when the query returns undefined.
C27_PropertiesPreemptSearch ==
    /\ Computed => fn.output # <<>>
    /\ ResolvedCall =>
          /\ fn.output.props # None =>
                /\ ~fn.output.searched
                /\ fn.output.result.source = "msbuild"
                /\ fn.output.result.binaryPath # <<>>
          /\ fn.output.searched => fn.output.props = None

\* The tool printed none of the properties and the built DLL lies where the
\* search would find it: the result is the computed path bin/Debug/App.dll.
C27_Witness ==
    /\ ResolvedCall
    /\ NoPropertyFound
    /\ BuiltDll \in fn.input.files
    /\ ~fn.output.searched
    /\ fn.output.result =
         Resolved(<<"/", "repo", "/", "App", "/", "bin", "/", "Debug", "/", "App", ".dll">>,
                  "msbuild")

--------------------------------------------------------------------------
\* Properties of the launch after a failed build

\* The dotnet build of this call has failed: the failure was reported.
BuildFailed == "dotnet build failed" \in errors

\* C28: a call whose dotnet build fails (non-zero exit, timeout, spawn
\* error) ends without a configuration and without a call of
\* vscode.debug.startDebugging.
C28_FailedBuildEndsTheAttempt ==
    BuildFailed =>
        /\ config = None
        /\ final = None
        /\ count.startDebugging = 0
        /\ count.launches = 0

--------------------------------------------------------------------------
\* The commands of the saved selection, interleaved: a command that shows a
\* picker waits for its answer, and other commands run in the meantime

\* The largest number of commands that wait for a picker at the same time
MaxPickers == 2

\* A command that waits at the project picker, or at the profile picker it
\* opened for a project
Picker(command, at, project) == [command |-> command, at |-> at, project |-> project]

\* The commands that go on to a launch profile once they have a project
ProfileCommands == {"dotnetStart.selectLaunchProfile", "dotnetStart.start"}

\* A command has its project and turns to the profile: the start is content
\* with a saved profile (ensureSelectedProfile); otherwise the only profile
\* is saved at once, and the picker is opened when there are several.
ProfileStage(s, command, csprojUri) ==
    IF command = "dotnetStart.start" /\ getSelectedProfile(s) # None
    THEN [saved |-> s, opened |-> {}]
    ELSE LET step == selectLaunchProfile(s, workspace, csprojUri, None)
         IN IF step.prompts # <<>>
            THEN [saved |-> s, opened |-> {Picker(command, "profile", Some(csprojUri))}]
            ELSE [saved |-> step.saved, opened |-> {}]

\* dotnetStart.selectStartProject up to its picker
BeginSelectStartProject ==
    /\ Cardinality(pickers) < MaxPickers
    /\ workspace.csprojs # {}
    /\ pickers' = pickers \cup {Picker("dotnetStart.selectStartProject", "project", None)}
    /\ UNCHANGED <<rev, launchFile, fn, workspace, saved, ui, prev, process>>

\* A command that needs a project, up to its first picker:
\* ensureSelectedProject, then the profile when a project is saved.
BeginWithProject(command) ==
    /\ Cardinality(pickers) < MaxPickers
    /\ IF getSelectedProject(saved) = None
       THEN /\ workspace.csprojs # {}
            /\ pickers' = pickers \cup {Picker(command, "project", None)}
            /\ UNCHANGED saved
       ELSE LET stage == ProfileStage(saved, command, The(getSelectedProject(saved)))
            IN /\ saved' = stage.saved
               /\ pickers' = pickers \cup stage.opened

\* dotnetStart.selectLaunchProfile up to its first picker
BeginSelectLaunchProfile ==
    /\ BeginWithProject("dotnetStart.selectLaunchProfile")
    /\ UNCHANGED <<rev, launchFile, fn, workspace, ui, prev, process>>

\* dotnetStart.start with the action run-selected up to its first picker
BeginStart ==
    /\ BeginWithProject("dotnetStart.start")
    /\ UNCHANGED <<rev, launchFile, fn, workspace, ui, prev, process>>

\* The project picker answers: selectStartProject goes on after its await,
\* saves the project picked, and the command turns to the profile.
ProjectPicked ==
    /\ \E p \in pickers, choice \in ProjectChoices :
         /\ p.at = "project"
         /\ LET step == selectStartProject(saved, workspace, choice)
            IN IF p.command \notin ProfileCommands \/ step.value = None
               THEN /\ saved' = step.saved
                    /\ pickers' = pickers \ {p}
               ELSE LET stage == ProfileStage(step.saved, p.command, The(step.value))
                    IN /\ saved' = stage.saved
                       /\ pickers' = (pickers \ {p}) \cup stage.opened
    /\ UNCHANGED <<rev, launchFile, fn, workspace, ui, prev, process>>

\* The profile picker answers: selectLaunchProfile goes on after its await
\* and saves the profile picked.
ProfilePicked ==
    /\ \E p \in pickers, choice \in ProfileChoices :
         /\ p.at = "profile"
         /\ saved' = selectLaunchProfile(saved, workspace, The(p.project), choice).saved
         /\ pickers' = pickers \ {p}
    /\ UNCHANGED <<rev, launchFile, fn, workspace, ui, prev, process>>

\* dotnetStart.clearState, which shows no picker
ClearStateMeanwhile ==
    /\ saved' = clearState(saved)
    /\ UNCHANGED <<rev, launchFile, fn, workspace, ui, prev, pickers, process>>

InterleavedInit ==
    /\ AtRest
    /\ fn = NoCall
    /\ workspace \in Workspaces
    /\ saved = NothingSaved
    /\ ui = NoCommand
    /\ prev = NoCommand
    /\ pickers = {}

InterleavedNext ==
    \/ BeginSelectStartProject
    \/ BeginSelectLaunchProfile
    \/ BeginStart
    \/ ProjectPicked
    \/ ProfilePicked
    \/ ClearStateMeanwhile

Interleaved == InterleavedInit /\ [][InterleavedNext]_vars

\* C29: in every state the interleaved commands reach, a saved launch
\* profile belongs to the saved start project: a start project is saved and
\* its launch settings hold the profile; no profile picked for a project
\* that was replaced or forgotten since is left saved.
C29_SavedProfileBelongsToSavedProject ==
    saved.profile # None =>
        /\ SavedProject(saved) # None
        /\ The(saved.profile) \in ProfilesOf(The(SavedProject(saved)))

--------------------------------------------------------------------------
\* Claims about the picker of the start action

\* The quick pick of showPreselectedQuickPick has fired an event.
PickerFired ==
    fn.op = "showPreselectedQuickPick" /\ fn.output # <<>> /\ fn.output.fired # <<>>

\* What the first event stands for: the first selected item of an accept,
\* the highlighted item when none is selected; nothing for a hide.
FirstAnswer ==
    LET e == fn.output.fired[1]
    IN IF e.event = "hide" THEN None
       ELSE IF e.selectedItems # <<>> THEN Some(e.selectedItems[1])
       ELSE IF e.activeItems # <<>> THEN Some(e.activeItems[1])
       ELSE None

\* C30: the promise of showPreselectedQuickPick is settled once, by the first
\* event of the picker: an accept gives the first selected item, or the
\* highlighted item when nothing is selected, and a hide that follows does
\* not replace it; a hide without an accept before it gives undefined.
C30_SettledOnceByFirstEvent ==
    /\ (fn.op = "showPreselectedQuickPick" /\ fn.output # <<>> /\ fn.output.fired = <<>>) =>
           fn.output.resolved = <<>>
    /\ PickerFired => fn.output.resolved = <<FirstAnswer>>

\* An accept with nothing selected and run-once highlighted, then a hide: the
\* promise holds the highlighted item.
C30_Witness ==
    /\ PickerFired
    /\ fn.input.activeItem = "run-selected"
    /\ Len(fn.output.fired) = 2
    /\ fn.output.fired[1] =
         [event |-> "accept", selectedItems |-> <<>>, activeItems |-> <<"run-once-profile">>]
    /\ fn.output.fired[2].event = "hide"
    /\ fn.output.resolved = <<Some("run-once-profile")>>


==========================================================================
